---- MODULE Spec2Model ----
(***************************************************************************)
(* MiniCAD editor core: the zustand editor store (five entity tables,      *)
(* selection, linear command history with a cursor) and the command        *)
(* classes that mutate it (MoveVertex, MoveInstance, AddRoom, AddWall,     *)
(* AddInstance, Delete).                                                   *)
(*                                                                         *)
(* Tables are functions from the ids present to entity records.            *)
(* Coordinates and offsets are integers (one unit stands for a fixed       *)
(* number of millimetres).  A JavaScript null is the record Null.          *)
(***************************************************************************)
EXTENDS Integers, Sequences, FiniteSets, TLC

\* ------------------------------------------------------------------ bounds

\* number of executeCommand calls the model follows after a load
MaxCommands == 2
\* largest offsetFromStart a command payload carries
MaxOffset == 2
\* number of imports that can be pending at a time
MaxPending == 1

\* ------------------------------------------------------------ value domains

VIds == {"v1", "v2", "v3", "v4"}
WIds == {"w1", "w2"}
RIds == {"r1", "r2"}
IIds == {"d1"}

\* vertex positions that pointer input can produce; every y is even, so the
\* shoelace sum of any polygon over them is even
Points == {[x |-> 0, y |-> 0], [x |-> 1, y |-> 0], [x |-> 2, y |-> 0], [x |-> 0, y |-> 2]}
Offsets == 0..MaxOffset

Null == [null |-> TRUE]

\* ---------------------------------------------------------- table helpers

\* { ...table, [id]: value }
Put(table, id, value) ==
  [k \in (DOMAIN table) \cup {id} |-> IF k = id THEN value ELSE table[k]]

\* const { [id]: removed, ...rest } = table   /   delete table[id]
Remove(table, id) == [k \in (DOMAIN table) \ {id} |-> table[k]]

EmptyTable == [k \in {} |-> Null]

\* the set of elements of a sequence
Range(s) == {s[i] : i \in DOMAIN s}

\* ------------------------------------------------------------- geometry

Abs(n) == IF n < 0 THEN -n ELSE n

RECURSIVE ShoelaceSum(_, _)
\* the loop of calculateArea from index i on: sum of x_i*y_j - x_j*y_i, j = (i+1) % n
ShoelaceSum(polygon, i) ==
  IF i > Len(polygon) THEN 0
  ELSE LET j == (i % Len(polygon)) + 1
       IN  polygon[i][1] * polygon[j][2] - polygon[j][1] * polygon[i][2]
             + ShoelaceSum(polygon, i + 1)

\* the shoelace sum halved, with the sign the winding gives it
calculateSignedArea(polygon) ==
  IF Len(polygon) < 3 THEN 0 ELSE ShoelaceSum(polygon, 1) \div 2

\* Math.abs(area / 2); the division is exact over Points
calculateArea(polygon) ==
  IF Len(polygon) < 3 THEN 0 ELSE Abs(ShoelaceSum(polygon, 1)) \div 2

\* room.vertices.map(id -> [x, y] or null).filter(p => p !== null)
RECURSIVE RoomPolygon(_, _)
RoomPolygon(ids, verts) ==
  IF ids = <<>> THEN <<>>
  ELSE IF Head(ids) \in DOMAIN verts
       THEN <<<<verts[Head(ids)].x, verts[Head(ids)].y>>>> \o RoomPolygon(Tail(ids), verts)
       ELSE RoomPolygon(Tail(ids), verts)

calculateRoomArea(room, verts) ==
  IF Len(room.vertices) < 3 THEN 0
  ELSE calculateArea(RoomPolygon(room.vertices, verts))

\* square of the wall's length, (v2.x - v1.x)^2 + (v2.y - v1.y)^2
WallLengthSq(wall, verts) ==
  LET a == verts[wall.vStart]
      b == verts[wall.vEnd]
  IN  (b.x - a.x) * (b.x - a.x) + (b.y - a.y) * (b.y - a.y)

\* ------------------------------------------------------------ the store

VARIABLES
  vertices,        \* id -> [x, y]
  walls,           \* id -> [vStart, vEnd, thickness, isOuter]
  rooms,           \* id -> [name, vertices, type, area]
  symbols,         \* id -> symbol definition
  instances,       \* id -> [symbol, constraint, transform, props]
  selectedIds,     \* sequence of ids
  selectedType,    \* "vertex" | "wall" | "room" | "instance" | NoType
  commandHistory,  \* sequence of commands
  historyIndex,    \* cursor, -1 when nothing is applied
  lastOp,          \* history variable: the store operation that ran last
  lastCmd,         \* history variable: the command that operation ran
  pre,             \* history variable: tables and cursor before the last history operation
  nCommands,       \* history variable: executeCommand calls since the start
  dragging,        \* the handle a pointer drag holds: NoDrag or [kind, id]
  dragStartPositionRef,  \* HandlesLayer: Null or the vertex position at drag start
  dragStartRef,    \* InstanceLayer: Null or [offset |-> offsetFromStart at drag start]
  pendingImports,  \* commands of import(..).then(..) callbacks that have not run yet
  dragPre,         \* history variable: tables and history when the drag started
  loadedDocument,  \* history variable: the five tables the last loadJSON stored
  worldPoint,      \* the pointer position of the last mouse-down, Null before it
  hit,             \* what findHitObject returned for it, NoHit before it
  entryOrder,      \* the keys of the tables in Object.entries order; followed by the
                   \* specifications that hit-test (HitSpec, OrderSpec), no other reads it
  called,          \* the last call of a utility function: NoCall or [fn, its arguments]
  returned         \* what that call returned, Null before it

store == <<vertices, walls, rooms, symbols, instances, selectedIds, selectedType>>
history == <<commandHistory, historyIndex>>
ghost == <<lastOp, lastCmd, pre, nCommands>>
drag == <<dragging, dragStartPositionRef, dragStartRef, pendingImports, dragPre>>
utility == <<called, returned>>
pointer == <<worldPoint, hit, entryOrder, utility>>
vars == <<store, history, ghost, drag, pointer, loadedDocument>>

\* get(): the part of the state the commands read and write
State ==
  [vertices |-> vertices, walls |-> walls, rooms |-> rooms, symbols |-> symbols,
   instances |-> instances, selectedIds |-> selectedIds, selectedType |-> selectedType]

\* the five tables of a state record
Tables(s) ==
  [vertices |-> s.vertices, walls |-> s.walls, rooms |-> s.rooms,
   symbols |-> s.symbols, instances |-> s.instances]

\* the five tables and the cursor, as the history variables record them
Snapshot == [tables |-> Tables(State), historyIndex |-> historyIndex]

NoCmd == [kind |-> "None"]

\* no handle is being dragged
NoDrag == [kind |-> "none"]

\* findHitObject has not been called
NoHit == [type |-> "unset"]

\* no utility function has been called yet
NoCall == [fn |-> "none"]

\* dragPre while no handle is held
NoSnapshot == [tables |-> "none"]

\* the tables and the history, as dragPre records them
DragSnapshot ==
  [tables |-> Tables(State), commandHistory |-> commandHistory,
   historyIndex |-> historyIndex]

\* selectedType: null
NoType == "null"

\* ------------------------------------------------------- entity predicates

WallUses(wall, vId) == wall.vStart = vId \/ wall.vEnd = vId

\* Object.values(ws).some(wall => wall.vStart === vId || wall.vEnd === vId)
UsedByWall(ws, vId) == \E w \in DOMAIN ws : WallUses(ws[w], vId)

\* Object.values(rs).some(room => room.vertices.includes(vId))
UsedByRoom(rs, vId) == \E r \in DOMAIN rs : vId \in Range(rs[r].vertices)

\* an instance whose constraint attaches it to a wall
IsAnchored(inst) ==
  /\ "attachTo" \in DOMAIN inst.constraint
  /\ inst.constraint.attachTo.kind = "wall"

\* ------------------------------------------------------ MoveVertexCommand

\* { ...vertex, x: position.x, y: position.y } stored under vertexId; a vertex that
\* is not in the table leaves the state as it is (console.warn and return)
SetPosition(c, s, position) ==
  IF c.vertexId \notin DOMAIN s.vertices THEN s
  ELSE LET vertex == s.vertices[c.vertexId]
       IN  [s EXCEPT !.vertices =
              Put(s.vertices, c.vertexId,
                  [vertex EXCEPT !.x = position.x, !.y = position.y])]

MoveVertexExecute(c, s) == SetPosition(c, s, c.newPosition)

MoveVertexUndo(c, s) == SetPosition(c, s, c.oldPosition)

\* ---------------------------------------------------- MoveInstanceCommand

\* { ...constraint, offsetFromStart: offset }; spreading null gives {}
SpreadOffset(constraint, offset) ==
  IF constraint = Null THEN [offsetFromStart |-> offset]
  ELSE [k \in (DOMAIN constraint) \cup {"offsetFromStart"} |->
          IF k = "offsetFromStart" THEN offset ELSE constraint[k]]

SetOffset(c, s, offset) ==
  IF c.instanceId \notin DOMAIN s.instances THEN s
  ELSE LET instance == s.instances[c.instanceId]
       IN  [s EXCEPT !.instances =
              Put(s.instances, c.instanceId,
                  [instance EXCEPT !.constraint =
                     SpreadOffset(instance.constraint, offset)])]

MoveInstanceExecute(c, s) == SetOffset(c, s, c.newOffset)

MoveInstanceUndo(c, s) == SetOffset(c, s, c.oldOffset)

\* --------------------------------------------------------- AddWallCommand

AddWallExecute(c, s) ==
  LET withV1 == IF c.v1Id \in DOMAIN s.vertices THEN s.vertices
                ELSE Put(s.vertices, c.v1Id, c.v1Data)
      newVertices == IF c.v2Id \in DOMAIN withV1 THEN withV1
                     ELSE Put(withV1, c.v2Id, c.v2Data)
  IN  [s EXCEPT !.vertices = newVertices,
                !.walls = Put(@, c.wallId, c.wallData)]

AddWallUndo(c, s) ==
  LET newWalls == Remove(s.walls, c.wallId)
      v1Used == UsedByWall(newWalls, c.v1Id)
      v2Used == UsedByWall(newWalls, c.v2Id)
      dropV1 == IF v1Used THEN s.vertices ELSE Remove(s.vertices, c.v1Id)
      newVertices == IF v2Used THEN dropV1 ELSE Remove(dropV1, c.v2Id)
  IN  [s EXCEPT !.vertices = newVertices, !.walls = newWalls]

\* --------------------------------------------------------- AddRoomCommand

RECURSIVE AddMissingVertices(_, _, _, _)
\* for (i ...) if (!newVertices[vertexIds[i]]) newVertices[vertexIds[i]] = vertexData[i]
AddMissingVertices(verts, vertexIds, vertexData, i) ==
  IF i > Len(vertexIds) THEN verts
  ELSE AddMissingVertices(
         IF vertexIds[i] \in DOMAIN verts THEN verts
         ELSE Put(verts, vertexIds[i], vertexData[i]),
         vertexIds, vertexData, i + 1)

AddRoomExecute(c, s) ==
  [s EXCEPT !.vertices = AddMissingVertices(@, c.vertexIds, c.vertexData, 1),
            !.rooms = Put(@, c.roomId, c.roomData)]

AddRoomUndo(c, s) ==
  LET newRooms == Remove(s.rooms, c.roomId)
      unused == {vId \in Range(c.vertexIds) :
                   ~UsedByRoom(newRooms, vId) /\ ~UsedByWall(s.walls, vId)}
  IN  [s EXCEPT !.vertices = [k \in (DOMAIN @) \ unused |-> @[k]],
                !.rooms = newRooms]

\* ----------------------------------------------------- AddInstanceCommand

AddInstanceExecute(c, s) ==
  [s EXCEPT !.instances = Put(@, c.instanceId, c.instanceData)]

AddInstanceUndo(c, s) ==
  [s EXCEPT !.instances = Remove(@, c.instanceId)]

\* ---------------------------------------------------------- DeleteCommand

\* a delete that takes the vertices of a deleted room with it
DeleteWithVertices(c, s) ==
  LET removed ==
        CASE c.objectType = "room" ->
               [s EXCEPT !.rooms = Remove(@, c.objectId),
                         !.vertices = [v \in (DOMAIN @) \ Range(c.objectData.vertices) |-> @[v]]]
          [] c.objectType = "wall" -> [s EXCEPT !.walls = Remove(@, c.objectId)]
          [] c.objectType = "instance" -> [s EXCEPT !.instances = Remove(@, c.objectId)]
          [] c.objectType = "vertex" -> [s EXCEPT !.vertices = Remove(@, c.objectId)]
          [] OTHER -> s
  IN  [removed EXCEPT !.selectedIds = <<>>, !.selectedType = NoType]

DeleteExecute(c, s) ==
  LET removed ==
        CASE c.objectType = "room" -> [s EXCEPT !.rooms = Remove(@, c.objectId)]
          [] c.objectType = "wall" -> [s EXCEPT !.walls = Remove(@, c.objectId)]
          [] c.objectType = "instance" -> [s EXCEPT !.instances = Remove(@, c.objectId)]
          [] c.objectType = "vertex" -> [s EXCEPT !.vertices = Remove(@, c.objectId)]
          [] OTHER -> s
  IN  [removed EXCEPT !.selectedIds = <<>>, !.selectedType = NoType]

DeleteUndo(c, s) ==
  LET restored ==
        CASE c.objectType = "room" -> [s EXCEPT !.rooms = Put(@, c.objectId, c.objectData)]
          [] c.objectType = "wall" -> [s EXCEPT !.walls = Put(@, c.objectId, c.objectData)]
          [] c.objectType = "instance" ->
               [s EXCEPT !.instances = Put(@, c.objectId, c.objectData)]
          [] c.objectType = "vertex" ->
               [s EXCEPT !.vertices = Put(@, c.objectId, c.objectData)]
          [] OTHER -> s
  IN  [restored EXCEPT !.selectedIds = <<c.objectId>>, !.selectedType = c.objectType]

\* ------------------------------------------------------- command dispatch

\* command.execute(get, set)
Execute(c, s) ==
  CASE c.kind = "MoveVertex" -> MoveVertexExecute(c, s)
    [] c.kind = "MoveInstance" -> MoveInstanceExecute(c, s)
    [] c.kind = "AddWall" -> AddWallExecute(c, s)
    [] c.kind = "AddRoom" -> AddRoomExecute(c, s)
    [] c.kind = "AddInstance" -> AddInstanceExecute(c, s)
    [] c.kind = "Delete" -> DeleteExecute(c, s)

\* command.undo(get, set)
UndoCmd(c, s) ==
  CASE c.kind = "MoveVertex" -> MoveVertexUndo(c, s)
    [] c.kind = "MoveInstance" -> MoveInstanceUndo(c, s)
    [] c.kind = "AddWall" -> AddWallUndo(c, s)
    [] c.kind = "AddRoom" -> AddRoomUndo(c, s)
    [] c.kind = "AddInstance" -> AddInstanceUndo(c, s)
    [] c.kind = "Delete" -> DeleteUndo(c, s)

\* command.redo(get, set): the base class calls execute; no command overrides it
\* with anything else
RedoCmd(c, s) == Execute(c, s)

\* ------------------------------------------------- history (editorStore)

\* executeCommand without the slice: the command is pushed onto the whole history
NewHistoryNoTruncate(hist, idx, command) == Append(hist, command)

\* state.commandHistory.slice(0, state.historyIndex + 1) with command pushed
NewHistory(hist, idx, command) == Append(SubSeq(hist, 1, idx + 1), command)

\* an undo button that is on whenever the history has an entry
canUndoWithHistory == Len(commandHistory) > 0

\* canUndo / canRedo
canUndo == historyIndex >= 0
canRedo == historyIndex < Len(commandHistory) - 1

\* set(s) for the fields a command can write
SetStore(s) ==
  /\ vertices' = s.vertices
  /\ walls' = s.walls
  /\ rooms' = s.rooms
  /\ symbols' = s.symbols
  /\ instances' = s.instances
  /\ selectedIds' = s.selectedIds
  /\ selectedType' = s.selectedType

\* the history variables after operation op ran command (NoCmd when it returned at
\* once)
Record(op, command) ==
  /\ lastOp' = op
  /\ lastCmd' = command
  /\ pre' = Snapshot
  /\ nCommands' = IF op = "execute" THEN nCommands + 1 ELSE nCommands

\* the history variables after a pointer or key step that runs no history
\* operation: pre is the snapshot after the step
Note(op) ==
  /\ lastOp' = op
  /\ lastCmd' = NoCmd
  /\ pre' = Snapshot'
  /\ UNCHANGED nCommands

\* executeCommand(command); the model follows MaxCommands calls of a session
executeCommand(command) ==
  /\ nCommands < MaxCommands
  /\ SetStore(Execute(command, State))
  /\ commandHistory' = NewHistory(commandHistory, historyIndex, command)
  /\ historyIndex' = Len(commandHistory') - 1
  /\ Record("execute", command)

\* undo without its early return: the cursor moves back although nothing is there
undoWithoutGuard ==
  LET command == IF historyIndex < 0 THEN NoCmd ELSE commandHistory[historyIndex + 1]
  IN  /\ SetStore(IF historyIndex < 0 THEN State ELSE UndoCmd(command, State))
      /\ historyIndex' = historyIndex - 1
      /\ UNCHANGED commandHistory
      /\ Record("undo", command)

\* redo without its early return: the cursor moves forward although nothing is there
redoWithoutGuard ==
  LET atEnd == historyIndex >= Len(commandHistory) - 1
      command == IF atEnd THEN NoCmd ELSE commandHistory[historyIndex + 2]
  IN  /\ SetStore(IF atEnd THEN State ELSE RedoCmd(command, State))
      /\ historyIndex' = historyIndex + 1
      /\ UNCHANGED commandHistory
      /\ Record("redo", command)

\* undo with nothing to undo returns at once
undo ==
  IF historyIndex < 0
  THEN /\ UNCHANGED <<store, history>>
       /\ Record("undo", NoCmd)
  ELSE LET command == commandHistory[historyIndex + 1]
       IN  /\ SetStore(UndoCmd(command, State))
           /\ historyIndex' = historyIndex - 1
           /\ UNCHANGED commandHistory
           /\ Record("undo", command)

\* redo with nothing to redo returns at once
redo ==
  IF historyIndex >= Len(commandHistory) - 1
  THEN /\ UNCHANGED <<store, history>>
       /\ Record("redo", NoCmd)
  ELSE LET command == commandHistory[historyIndex + 2]
       IN  /\ SetStore(RedoCmd(command, State))
           /\ historyIndex' = historyIndex + 1
           /\ UNCHANGED commandHistory
           /\ Record("redo", command)

\* --------------------------------------- the commands the editor constructs

Position(vertex) == [x |-> vertex.x, y |-> vertex.y]

\* HandlesLayer.handleDragEnd: old = position at drag start, new = where it ended;
\* no command when the position did not change
MoveVertexCommands ==
  {[kind |-> "MoveVertex", vertexId |-> v,
    oldPosition |-> Position(vertices[v]), newPosition |-> p] :
      <<v, p>> \in {vp \in (DOMAIN vertices) \X Points : Position(vertices[vp[1]]) # vp[2]}}

\* Math.abs(newOffset - oldOffset) > 0.1 of InstanceLayer.handleDragEnd: offsets are
\* counted in tenths of a millimetre
OffsetTolerance == 1

\* InstanceLayer handleDragEnd: a command only when the offset moved by more than
\* the tolerance
MoveInstanceCommands ==
  {[kind |-> "MoveInstance", instanceId |-> i,
    oldOffset |-> instances[i].constraint.offsetFromStart, newOffset |-> o] :
      <<i, o>> \in {io \in (DOMAIN instances) \X Offsets :
                      /\ IsAnchored(instances[io[1]])
                      /\ Abs(io[2] - instances[io[1]].constraint.offsetFromStart)
                           > OffsetTolerance}}

\* the ids v<n+1>, v<n+2> that DRAW_WALL gives the two ends of a segment, and the
\* rounded pointer positions of the two ends
WallVertexPairs == {<<"v1", "v2">>, <<"v2", "v3">>, <<"v3", "v4">>}
WallPointPairs ==
  {<<[x |-> 0, y |-> 0], [x |-> 0, y |-> 2]>>, <<[x |-> 1, y |-> 0], [x |-> 0, y |-> 0]>>}

\* KonvaCanvas, DRAW_WALL finished: one command per segment, under a wall id that
\* is not in use
AddWallCommands ==
  {[kind |-> "AddWall", wallId |-> q[1], v1Id |-> q[2][1], v2Id |-> q[2][2],
    v1Data |-> q[3][1], v2Data |-> q[3][2],
    wallData |-> [vStart |-> q[2][1], vEnd |-> q[2][2], thickness |-> 200,
                  isOuter |-> FALSE]] :
      q \in (WIds \ DOMAIN walls) \X WallVertexPairs \X WallPointPairs}

\* the ids v<n+1>..v<n+3> that DRAW_ROOM gives the corners of a triangle, and the
\* rounded pointer positions of the corners
RoomVertexLists == {<<"v1", "v2", "v3">>, <<"v2", "v3", "v4">>}
RoomPointLists ==
  {<<[x |-> 0, y |-> 0], [x |-> 1, y |-> 0], [x |-> 0, y |-> 2]>>,
   <<[x |-> 0, y |-> 2], [x |-> 0, y |-> 0], [x |-> 1, y |-> 0]>>}

\* KonvaCanvas, DRAW_ROOM finished, under a room id that is not in use: area is
\* computed from the drawn points
AddRoomCommands ==
  {[kind |-> "AddRoom", roomId |-> q[1], vertexIds |-> q[2], vertexData |-> q[3],
    roomData |-> [name |-> "Room", vertices |-> q[2], type |-> "other",
                  area |-> calculateArea([i \in 1..3 |-> <<q[3][i].x, q[3][i].y>>])]] :
      q \in (RIds \ DOMAIN rooms) \X RoomVertexLists \X RoomPointLists}

AnchoredInstance(w, o) ==
  [symbol |-> "door.single",
   constraint |-> [attachTo |-> [kind |-> "wall", id |-> w], offsetFromStart |-> o],
   transform |-> Null,
   props |-> [width |-> 900]]

FreeInstance(p) ==
  [symbol |-> "stairs",
   constraint |-> Null,
   transform |-> [position |-> <<p.x, p.y>>, rotation |-> 0],
   props |-> [label |-> "STAIRS"]]

\* KonvaCanvas, placement click, under an instance id that is not in use: an
\* anchored symbol goes on the wall that was hit, at the clamped projection of the
\* pointer; a free symbol goes where the pointer is
AddInstanceCommands ==
  {[kind |-> "AddInstance", instanceId |-> q[1], instanceData |-> AnchoredInstance(q[2], q[3])] :
      q \in {t \in (IIds \ DOMAIN instances) \X (DOMAIN walls) \X Offsets :
               /\ walls[t[2]].vStart \in DOMAIN vertices
               /\ walls[t[2]].vEnd \in DOMAIN vertices
               /\ t[3] * t[3] <= WallLengthSq(walls[t[2]], vertices)}}
  \cup
  {[kind |-> "AddInstance", instanceId |-> i, instanceData |-> FreeInstance([x |-> 0, y |-> 0])] :
      i \in IIds \ DOMAIN instances}

\* KonvaCanvas, Delete key: objectData is the selected object as stored
DeleteCommands ==
  {[kind |-> "Delete", objectType |-> "room", objectId |-> r, objectData |-> rooms[r]] :
      r \in DOMAIN rooms}
  \cup
  {[kind |-> "Delete", objectType |-> "wall", objectId |-> w, objectData |-> walls[w]] :
      w \in DOMAIN walls}
  \cup
  {[kind |-> "Delete", objectType |-> "instance", objectId |-> i, objectData |-> instances[i]] :
      i \in DOMAIN instances}
  \cup
  {[kind |-> "Delete", objectType |-> "vertex", objectId |-> v, objectData |-> vertices[v]] :
      v \in DOMAIN vertices}

\* ------------------------------------------------------ loaded documents

SampleSymbols ==
  [k \in {"door.single", "stairs"} |->
     IF k = "door.single" THEN [type |-> "anchored", anchor |-> "wall"]
     ELSE [type |-> "free", anchor |-> "none"]]

EmptyDocument ==
  [vertices |-> EmptyTable, walls |-> EmptyTable, rooms |-> EmptyTable,
   symbols |-> SampleSymbols, instances |-> EmptyTable]

\* one triangular room, one wall on its edge v1-v2, one door at the wall's end
SampleDocument ==
  [vertices |-> [k \in {"v1", "v2", "v3"} |->
                   CASE k = "v1" -> [x |-> 0, y |-> 0]
                     [] k = "v2" -> [x |-> 0, y |-> 2]
                     [] k = "v3" -> [x |-> 1, y |-> 0]],
   walls |-> [k \in {"w1"} |->
                [vStart |-> "v1", vEnd |-> "v2", thickness |-> 200, isOuter |-> TRUE]],
   rooms |-> [k \in {"r1"} |->
                [name |-> "Room", vertices |-> <<"v1", "v2", "v3">>, type |-> "living",
                 area |-> 1]],
   symbols |-> SampleSymbols,
   instances |-> [k \in {"d1"} |-> AnchoredInstance("w1", 2)]]

\* a document without walls, rooms and instances tables, and with symbols: null
PartialDocument ==
  [units |-> "mm",
   vertices |-> [k \in {"v1", "v2"} |->
                   IF k = "v1" THEN [x |-> 0, y |-> 0] ELSE [x |-> 2, y |-> 0]],
   symbols |-> Null]

\* one wall v1-v2 with a door at its end
DragDocument ==
  [vertices |-> [k \in {"v1", "v2"} |->
                   IF k = "v1" THEN [x |-> 0, y |-> 0] ELSE [x |-> 0, y |-> 2]],
   walls |-> [k \in {"w1"} |->
                [vStart |-> "v1", vEnd |-> "v2", thickness |-> 200, isOuter |-> TRUE]],
   rooms |-> EmptyTable,
   symbols |-> SampleSymbols,
   instances |-> [k \in {"d1"} |-> AnchoredInstance("w1", 2)]]

Documents == {EmptyDocument, SampleDocument}

\* loadJSON that keeps the store's table where the document has none
LoadedOverStore(data) ==
  LET Kept(name) == IF name \in DOMAIN data /\ data[name] # Null THEN data[name]
                    ELSE State[name]
  IN  [vertices |-> Kept("vertices"), walls |-> Kept("walls"), rooms |-> Kept("rooms"),
       symbols |-> Kept("symbols"), instances |-> Kept("instances"),
       selectedIds |-> <<>>, selectedType |-> NoType]

\* the store fields loadJSON sets: data.<table> || {} for each table, and an empty
\* selection
Loaded(data) ==
  LET TableOf(name) == IF name \in DOMAIN data /\ data[name] # Null THEN data[name]
                       ELSE EmptyTable
  IN  [vertices |-> TableOf("vertices"), walls |-> TableOf("walls"),
       rooms |-> TableOf("rooms"), symbols |-> TableOf("symbols"),
       instances |-> TableOf("instances"),
       selectedIds |-> <<>>, selectedType |-> NoType]

\* loadJSON(data): one set() of the tables, the selection and the history
loadJSON(data) ==
  /\ SetStore(Loaded(data))
  /\ commandHistory' = <<>>
  /\ historyIndex' = -1

\* the ids of the documents in the order the documents list them
EntryOrder ==
  <<"d1", "g1", "s1", "v1", "v2", "v3", "v4", "w1", "w2", "w3", "r1", "r2">>

\* the keys a store has after loadJSON(data), in the order data lists them
LoadedOrder(data) ==
  LET Present(id) ==
        \E name \in {"vertices", "walls", "rooms", "instances"} :
          id \in DOMAIN Loaded(data)[name]
  IN  SelectSeq(EntryOrder, Present)

\* nothing is dragged, no import is pending, no mouse-down and no utility call has
\* happened
UiIdle ==
  /\ dragging = NoDrag
  /\ dragStartPositionRef = Null
  /\ dragStartRef = Null
  /\ pendingImports = <<>>
  /\ worldPoint = Null
  /\ hit = NoHit
  /\ called = NoCall
  /\ returned = Null

\* the store after MainPage's loadJSON(data) on the created store
Started(data) ==
  /\ vertices = Loaded(data).vertices
  /\ walls = Loaded(data).walls
  /\ rooms = Loaded(data).rooms
  /\ symbols = Loaded(data).symbols
  /\ instances = Loaded(data).instances
  /\ selectedIds = <<>>
  /\ selectedType = NoType
  /\ commandHistory = <<>>
  /\ historyIndex = -1
  /\ loadedDocument = Tables(Loaded(data))
  /\ lastOp = "load"
  /\ lastCmd = NoCmd
  /\ pre = Snapshot
  /\ nCommands = 0
  /\ dragPre = NoSnapshot
  /\ entryOrder = LoadedOrder(data)
  /\ UiIdle

Init == \E data \in Documents : Started(data)

\* the steps of a session without pointer drags and without a second load
NoUi == UNCHANGED <<drag, pointer, loadedDocument>>

ExecMoveVertex == NoUi /\ \E c \in MoveVertexCommands : executeCommand(c)
ExecMoveInstance == NoUi /\ \E c \in MoveInstanceCommands : executeCommand(c)
ExecAddWall == NoUi /\ \E c \in AddWallCommands : executeCommand(c)
ExecAddRoom == NoUi /\ \E c \in AddRoomCommands : executeCommand(c)
ExecAddInstance == NoUi /\ \E c \in AddInstanceCommands : executeCommand(c)
ExecDelete == NoUi /\ \E c \in DeleteCommands : executeCommand(c)

Next ==
  \/ ExecMoveVertex
  \/ ExecMoveInstance
  \/ ExecAddWall
  \/ ExecAddRoom
  \/ ExecAddInstance
  \/ ExecDelete
  \/ (NoUi /\ undo)
  \/ (NoUi /\ redo)

Spec == Init /\ [][Next]_vars

\* ------------------------------- pointer drags (HandlesLayer, InstanceLayer)

\* selectItem(id, type) without addToSelection
selectItem(id, type) ==
  /\ selectedIds' = <<id>>
  /\ selectedType' = type
  /\ UNCHANGED <<vertices, walls, rooms, symbols, instances>>

clearSelection ==
  /\ selectedIds' = <<>>
  /\ selectedType' = NoType
  /\ UNCHANGED <<vertices, walls, rooms, symbols, instances>>

\* the table that holds the objects of a type
TableOfType(s, type) ==
  CASE type = "room" -> s.rooms
    [] type = "wall" -> s.walls
    [] type = "instance" -> s.instances
    [] type = "vertex" -> s.vertices

\* HandlesLayer.visibleVertexIds
visibleVertexIds(s) ==
  IF s.selectedType = "room"
  THEN UNION {Range(s.rooms[r].vertices) : r \in Range(s.selectedIds) \cap DOMAIN s.rooms}
  ELSE IF s.selectedType = "wall"
  THEN UNION {{s.walls[w].vStart, s.walls[w].vEnd} :
                w \in Range(s.selectedIds) \cap DOMAIN s.walls}
  ELSE {}

\* HandlesLayer.handles: a circle for every visible vertex that exists
handles(s) == visibleVertexIds(s) \cap DOMAIN s.vertices

\* InstanceLayer renders the drag handle of instance id: it is the first selected
\* instance, it has constraint.attachTo, its wall and the wall's two ends exist
InstanceHandle(s, id) ==
  /\ s.selectedType = "instance"
  /\ Len(s.selectedIds) > 0
  /\ s.selectedIds[1] = id
  /\ id \in DOMAIN s.instances
  /\ s.instances[id].constraint # Null
  /\ "attachTo" \in DOMAIN s.instances[id].constraint
  /\ s.instances[id].constraint.attachTo.id \in DOMAIN s.walls
  /\ s.walls[s.instances[id].constraint.attachTo.id].vStart \in DOMAIN s.vertices
  /\ s.walls[s.instances[id].constraint.attachTo.id].vEnd \in DOMAIN s.vertices

\* the handle of drag d is rendered in state s
Mounted(d, s) ==
  CASE d.kind = "vertex" -> d.id \in handles(s)
    [] d.kind = "instance" -> InstanceHandle(s, d.id)
    [] OTHER -> FALSE

\* a mouse-down that hits a room, a wall or an instance (the hit test itself is
\* HitSpec's); the pointer is free
Select ==
  /\ dragging = NoDrag
  /\ \E type \in {"room", "wall", "instance"} :
       \E id \in DOMAIN TableOfType(State, type) : selectItem(id, type)
  /\ UNCHANGED <<history, drag, pointer, loadedDocument>>
  /\ Note("select")

\* HandlesLayer.handleDragStart
VertexDragStart ==
  /\ dragging = NoDrag
  /\ \E vertexId \in handles(State) :
       /\ dragging' = [kind |-> "vertex", id |-> vertexId]
       /\ dragStartPositionRef' = Position(vertices[vertexId])
  /\ dragPre' = DragSnapshot
  /\ UNCHANGED <<store, history, dragStartRef, pendingImports, pointer, loadedDocument>>
  /\ Note("dragStart")

\* the snapped pointer positions a drag passes over
DragPoints == {[x |-> 0, y |-> 0], [x |-> 1, y |-> 0]}

\* a drag move that records every preview position as a MoveVertexCommand
VertexDragMoveRecorded ==
  /\ dragging.kind = "vertex"
  /\ Mounted(dragging, State)
  /\ \E p \in DragPoints :
       /\ vertices' = Put(vertices, dragging.id,
                          [vertices[dragging.id] EXCEPT !.x = p.x, !.y = p.y])
       /\ commandHistory' =
            NewHistory(commandHistory, historyIndex,
                       [kind |-> "MoveVertex", vertexId |-> dragging.id,
                        oldPosition |-> Position(vertices[dragging.id]),
                        newPosition |-> p])
  /\ historyIndex' = Len(commandHistory') - 1
  /\ UNCHANGED <<walls, rooms, symbols, instances, selectedIds, selectedType>>
  /\ UNCHANGED <<drag, pointer, loadedDocument>>
  /\ Note("dragMove")

\* HandlesLayer.handleDragMove: setState writes the snapped pointer position into
\* the vertex, no command
VertexDragMove ==
  /\ dragging.kind = "vertex"
  /\ Mounted(dragging, State)
  /\ \E p \in DragPoints :
       vertices' = Put(vertices, dragging.id,
                       [vertices[dragging.id] EXCEPT !.x = p.x, !.y = p.y])
  /\ UNCHANGED <<walls, rooms, symbols, instances, selectedIds, selectedType>>
  /\ UNCHANGED <<history, drag, pointer, loadedDocument>>
  /\ Note("dragMove")

\* HandlesLayer.handleDragEnd: one MoveVertexCommand from the drag-start position to
\* the position the preview left, none when they are equal
VertexDragEnd ==
  /\ dragging.kind = "vertex"
  /\ dragging' = NoDrag
  /\ LET vertexId == dragging.id
         oldPosition == dragStartPositionRef
     IN  IF vertexId \notin DOMAIN vertices \/ oldPosition = Null
         THEN /\ UNCHANGED <<store, history, dragStartPositionRef>>
              /\ Note("dragEnd")
         ELSE /\ dragStartPositionRef' = Null
              /\ IF oldPosition # Position(vertices[vertexId])
                 THEN executeCommand([kind |-> "MoveVertex", vertexId |-> vertexId,
                                      oldPosition |-> oldPosition,
                                      newPosition |-> Position(vertices[vertexId])])
                 ELSE /\ UNCHANGED <<store, history>>
                      /\ Note("dragEnd")
  /\ dragPre' = NoSnapshot
  /\ UNCHANGED <<dragStartRef, pendingImports, pointer, loadedDocument>>

\* InstanceLayer.handleDragStart
InstanceDragStart ==
  /\ dragging = NoDrag
  /\ \E selectedId \in DOMAIN instances :
       /\ InstanceHandle(State, selectedId)
       /\ dragging' = [kind |-> "instance", id |-> selectedId]
       /\ dragStartRef' = [offset |-> instances[selectedId].constraint.offsetFromStart]
  /\ dragPre' = DragSnapshot
  /\ UNCHANGED <<store, history, dragStartPositionRef, pendingImports, pointer,
                 loadedDocument>>
  /\ Note("dragStart")

\* InstanceLayer.handleDragMove: setState writes clampedProjection * wallLength, a
\* value between 0 and the wall's length, into the instance, no command.  On a
\* wall of length 0 the projection is not a number; the model does not follow a
\* move there.
InstanceDragMove ==
  /\ dragging.kind = "instance"
  /\ Mounted(dragging, State)
  /\ LET wall == walls[instances[dragging.id].constraint.attachTo.id]
     IN  /\ WallLengthSq(wall, vertices) > 0
         /\ \E newOffset \in Offsets :
              /\ newOffset * newOffset <= WallLengthSq(wall, vertices)
              /\ instances' = SetOffset([instanceId |-> dragging.id], State, newOffset).instances
  /\ UNCHANGED <<vertices, walls, rooms, symbols, selectedIds, selectedType>>
  /\ UNCHANGED <<history, drag, pointer, loadedDocument>>
  /\ Note("dragMove")

\* InstanceLayer.handleDragEnd: when the offset moved by more than the tolerance,
\* import("../../commands/MoveInstanceCommand") is started and its then-callback
\* will build and execute the command; the handler returns before that
InstanceDragEnd ==
  /\ dragging.kind = "instance"
  /\ dragging' = NoDrag
  /\ IF dragStartRef = Null
     THEN UNCHANGED <<dragStartRef, pendingImports>>
     ELSE LET selectedId == dragging.id
              oldOffset == dragStartRef.offset
              newOffset == instances[selectedId].constraint.offsetFromStart
          IN  /\ dragStartRef' = Null
              /\ IF Abs(newOffset - oldOffset) > OffsetTolerance
                 THEN /\ Len(pendingImports) < MaxPending
                      /\ pendingImports' =
                           Append(pendingImports,
                                  [kind |-> "MoveInstance", instanceId |-> selectedId,
                                   oldOffset |-> oldOffset, newOffset |-> newOffset])
                 ELSE UNCHANGED pendingImports
  /\ dragPre' = NoSnapshot
  /\ UNCHANGED <<store, history, dragStartPositionRef, pointer, loadedDocument>>
  /\ Note("dragEnd")

\* the then-callback of the oldest pending import runs: executeCommand(command)
ImportResolved ==
  /\ pendingImports # <<>>
  /\ executeCommand(Head(pendingImports))
  /\ pendingImports' = Tail(pendingImports)
  /\ UNCHANGED <<dragging, dragStartPositionRef, dragStartRef, dragPre, pointer,
                 loadedDocument>>

\* KonvaCanvas handleKeyDown, Escape: with no drawing and no placement going on it
\* is clearSelection(); the other two branches write tool state only
Escape ==
  /\ clearSelection
  /\ UNCHANGED <<history, drag, pointer, loadedDocument>>
  /\ Note("escape")

\* the handle of the drag was unmounted and no dragend is delivered for it
DragDropped ==
  /\ dragging # NoDrag
  /\ ~Mounted(dragging, State)
  /\ dragging' = NoDrag
  /\ dragPre' = NoSnapshot
  /\ UNCHANGED <<store, history, dragStartPositionRef, dragStartRef, pendingImports,
                 pointer, loadedDocument>>
  /\ Note("dragDropped")

\* While a handle is held the only key followed is Escape; undo and redo come
\* when no handle is held.
DragNext ==
  \/ Select
  \/ VertexDragStart
  \/ VertexDragMove
  \/ VertexDragEnd
  \/ InstanceDragStart
  \/ InstanceDragMove
  \/ InstanceDragEnd
  \/ ImportResolved
  \/ Escape
  \/ DragDropped
  \/ (dragging = NoDrag /\ NoUi /\ undo)
  \/ (dragging = NoDrag /\ NoUi /\ redo)

DragInit == Started(DragDocument)

DragSpec == DragInit /\ [][DragNext]_vars

\* ------------------------------------------------ loadJSON during a session

\* the documents a later loadJSON is given
LoadDocuments == Documents \cup {PartialDocument}

\* loadJSON(data) at any time no handle is held; lastCmd keeps the argument
Load ==
  /\ dragging = NoDrag
  /\ \E data \in LoadDocuments :
       /\ loadJSON(data)
       /\ loadedDocument' = Tables(Loaded(data))
       /\ lastCmd' = [kind |-> "Load", data |-> data]
  /\ lastOp' = "load"
  /\ pre' = Snapshot
  /\ UNCHANGED <<nCommands, drag, pointer>>

LoadNext ==
  \/ ExecMoveVertex
  \/ ExecMoveInstance
  \/ ExecAddWall
  \/ ExecAddRoom
  \/ ExecAddInstance
  \/ ExecDelete
  \/ (NoUi /\ undo)
  \/ (NoUi /\ redo)
  \/ Load

LoadSpec == Init /\ [][LoadNext]_vars

\* ---------------------------------------------- export followed by loadJSON

\* editorStore.exportJSON(): units and the five tables of the store; units is
\* "mm" in every store the model follows
exportJSON(s) ==
  [units |-> "mm", vertices |-> s.vertices, walls |-> s.walls, rooms |-> s.rooms,
   symbols |-> s.symbols, instances |-> s.instances]

\* utils/export.exportToJSON(state), as the document JSON.parse reads from the
\* string: units, rooms and walls; JSON.stringify leaves out openings and labels,
\* which the store does not have
exportToJSON(s) == [units |-> "mm", rooms |-> s.rooms, walls |-> s.walls]

\* loadJSON of the document an export has just produced; lastOp names the export
ExportLoaded(op, data) ==
  /\ dragging = NoDrag
  /\ loadJSON(data)
  /\ loadedDocument' = Tables(Loaded(data))
  /\ lastCmd' = [kind |-> "Load", data |-> data]
  /\ lastOp' = op
  /\ pre' = Snapshot
  /\ UNCHANGED <<nCommands, drag, pointer>>

StoreExportLoaded == ExportLoaded("exportJSON", exportJSON(State))

UtilsExportLoaded == ExportLoaded("exportToJSON", exportToJSON(State))

ExportNext ==
  \/ LoadNext
  \/ StoreExportLoaded
  \/ UtilsExportLoaded

ExportSpec == Init /\ [][ExportNext]_vars

\* ------------------------------- the drawing and placement tools (KonvaCanvas)

\* number of executeCommand calls the model follows in a session with the tools
MaxToolCommands == 3

\* Object.keys(table).length
Count(table) == Cardinality(DOMAIN table)

\* `v${n}`, `w${n}`, `r${n}`
VertexId(n) == "v" \o ToString(n)
WallId(n) == "w" \o ToString(n)
RoomId(n) == "r" \o ToString(n)

\* a store state, its history and its cursor after executeCommand(command)
ExecuteOn(r, command) ==
  [s |-> Execute(command, r.s),
   commandHistory |-> NewHistory(r.commandHistory, r.historyIndex, command),
   historyIndex |-> Len(NewHistory(r.commandHistory, r.historyIndex, command)) - 1]

RECURSIVE ExecuteEach(_, _, _)
\* executeCommand for the first n of commands, one after the other
ExecuteEach(commands, n, r) ==
  IF n = 0 THEN r ELSE ExecuteOn(ExecuteEach(commands, n - 1, r), commands[n])

\* a handler that calls executeCommand once for each of commands; pre is the
\* snapshot before the first call, lastCmd the command of the last call
executeCommands(commands) ==
  LET r == ExecuteEach(commands, Len(commands),
                       [s |-> State, commandHistory |-> commandHistory,
                        historyIndex |-> historyIndex])
  IN  /\ commands # <<>>
      /\ nCommands + Len(commands) <= MaxToolCommands
      /\ SetStore(r.s)
      /\ commandHistory' = r.commandHistory
      /\ historyIndex' = r.historyIndex
      /\ lastOp' = "execute"
      /\ lastCmd' = commands[Len(commands)]
      /\ pre' = Snapshot
      /\ nCommands' = nCommands + Len(commands)

\* a command that gives every corner the id of the first
RoomCommandOneId(points) ==
  LET vertexCount == Count(vertices)
      roomCount == Count(rooms)
      vertexIds == [i \in 1..Len(points) |-> VertexId(vertexCount + 1)]
  IN  [kind |-> "AddRoom", roomId |-> RoomId(roomCount + 1),
       vertexIds |-> vertexIds, vertexData |-> points,
       roomData |-> [name |-> "Room " \o ToString(roomCount + 1),
                     vertices |-> vertexIds, type |-> "other",
                     area |-> calculateArea([i \in 1..Len(points) |->
                                               <<points[i].x, points[i].y>>])]]

\* handleKeyDown, Enter with DRAW_ROOM and the drawn points: the command it builds
RoomCommand(points) ==
  LET vertexCount == Count(vertices)
      roomCount == Count(rooms)
      vertexIds == [i \in 1..Len(points) |-> VertexId(vertexCount + i)]
  IN  [kind |-> "AddRoom", roomId |-> RoomId(roomCount + 1),
       vertexIds |-> vertexIds, vertexData |-> points,
       roomData |-> [name |-> "Room " \o ToString(roomCount + 1),
                     vertices |-> vertexIds, type |-> "other",
                     area |-> calculateArea([i \in 1..Len(points) |->
                                               <<points[i].x, points[i].y>>])]]

\* handleKeyDown, Enter with DRAW_WALL and the drawn points: one command for each
\* segment, the counts taken once before the loop
WallCommands(points) ==
  LET vertexCount == Count(vertices)
      wallCount == Count(walls)
  IN  [i \in 1..(Len(points) - 1) |->
         [kind |-> "AddWall", wallId |-> WallId(wallCount + i),
          v1Id |-> VertexId(vertexCount + i), v2Id |-> VertexId(vertexCount + i + 1),
          v1Data |-> points[i], v2Data |-> points[i + 1],
          wallData |-> [vStart |-> VertexId(vertexCount + i),
                        vEnd |-> VertexId(vertexCount + i + 1),
                        thickness |-> 200, isOuter |-> FALSE]]]

\* the rounded points of a drawn wall chain: one segment, two segments
WallPointLists ==
  {<<[x |-> 0, y |-> 0], [x |-> 0, y |-> 2]>>,
   <<[x |-> 1, y |-> 0], [x |-> 0, y |-> 0], [x |-> 0, y |-> 2]>>}

\* the tool state (currentTool, tempPoints, placementMode) is not followed: a step
\* is the whole gesture, the clicks that collect the points and the key that ends it
\* the points of a room drawing that is ended too early: two, which would do for
\* a wall
ShortPointLists == {<<[x |-> 0, y |-> 0], [x |-> 1, y |-> 0]>>}

\* Enter or Space with DRAW_ROOM: the command is built and executed when three
\* points or more were placed, and nothing happens otherwise; lastCmd keeps the
\* points of a drawing that was ended too early
FinishRoom ==
  /\ \E points \in RoomPointLists \cup ShortPointLists :
       IF Len(points) >= 3
       THEN executeCommands(<<RoomCommand(points)>>)
       ELSE /\ UNCHANGED <<store, history, nCommands>>
            /\ lastOp' = "finishRoom"
            /\ lastCmd' = [kind |-> "None", points |-> points]
            /\ pre' = Snapshot
  /\ UNCHANGED <<drag, pointer, loadedDocument>>

FinishWall ==
  /\ \E points \in WallPointLists : executeCommands(WallCommands(points))
  /\ UNCHANGED <<drag, pointer, loadedDocument>>

\* placementMode: the object type of the toolbar entry and the symbol to place
PlacementModes ==
  {[objectType |-> "door", symbolId |-> "door.single"],
   [objectType |-> "stairs", symbolId |-> "stairs"]}

\* instanceId.toUpperCase()
UpperCase(objectType) == IF objectType = "door" THEN "DOOR" ELSE "STAIRS"

\* `${placementMode.objectType}${instanceCount + 1}`
InstanceId(objectType, n) == objectType \o ToString(n)

\* handleMouseDown in placement mode, symbol.type "anchored": the instance goes on
\* the wall the pointer hit, at the clamped projection of the pointer
AnchoredPlacement(mode, wallId, offset) ==
  LET instanceCount == Count(instances)
  IN  [kind |-> "AddInstance",
       instanceId |-> InstanceId(mode.objectType, instanceCount + 1),
       instanceData |->
         [symbol |-> mode.symbolId,
          constraint |-> [attachTo |-> [kind |-> "wall", id |-> wallId],
                          offsetFromStart |-> offset],
          transform |-> Null,
          props |-> [width |-> 900,
                     label |-> UpperCase(mode.objectType) \o ToString(instanceCount + 1)]]]

\* handleMouseDown in placement mode, any other symbol: the instance goes where
\* the pointer is
FreePlacement(mode, point) ==
  LET instanceCount == Count(instances)
  IN  [kind |-> "AddInstance",
       instanceId |-> InstanceId(mode.objectType, instanceCount + 1),
       instanceData |->
         [symbol |-> mode.symbolId,
          constraint |-> Null,
          transform |-> [position |-> <<point.x, point.y>>, rotation |-> 0],
          props |-> [label |-> UpperCase(mode.objectType) \o ToString(instanceCount + 1)]]]

\* the symbol of the placement mode is in the table with type "anchored"
IsAnchoredSymbol(mode) ==
  /\ mode.symbolId \in DOMAIN symbols
  /\ symbols[mode.symbolId].type = "anchored"

PlaceInstance ==
  /\ \E mode \in PlacementModes :
       IF IsAnchoredSymbol(mode)
       THEN \E w \in DOMAIN walls, offset \in Offsets :
              /\ walls[w].vStart \in DOMAIN vertices
              /\ walls[w].vEnd \in DOMAIN vertices
              /\ WallLengthSq(walls[w], vertices) > 0
              /\ offset * offset <= WallLengthSq(walls[w], vertices)
              /\ executeCommands(<<AnchoredPlacement(mode, w, offset)>>)
       ELSE executeCommands(<<FreePlacement(mode, [x |-> 0, y |-> 0])>>)
  /\ UNCHANGED <<drag, pointer, loadedDocument>>

\* a mouse-down with the select tool that hits an object of any type
SelectObject ==
  /\ \E type \in {"vertex", "wall", "room", "instance"} :
       \E id \in DOMAIN TableOfType(State, type) : selectItem(id, type)
  /\ UNCHANGED <<history, drag, pointer, loadedDocument>>
  /\ Note("select")

\* handleKeyDown, Delete: a DeleteCommand for the first selected object when it is
\* in its table
DeleteSelected ==
  /\ Len(selectedIds) > 0
  /\ selectedType # NoType
  /\ selectedIds[1] \in DOMAIN TableOfType(State, selectedType)
  /\ executeCommands(<<[kind |-> "Delete", objectType |-> selectedType,
                        objectId |-> selectedIds[1],
                        objectData |-> TableOfType(State, selectedType)[selectedIds[1]]]>>)
  /\ UNCHANGED <<drag, pointer, loadedDocument>>

ToolNext ==
  \/ FinishRoom
  \/ FinishWall
  \/ PlaceInstance
  \/ SelectObject
  \/ DeleteSelected
  \/ (NoUi /\ undo)
  \/ (NoUi /\ redo)

ToolSpec == Init /\ [][ToolNext]_vars

\* ----------------------------------------------------- hit testing (hitTest.js)
\* The documents of this part give every length in units of 50 mm, and points are
\* pairs <<x, y>>.

\* threshold = 100 of hitTestVertex and of hitTestWall, threshold = 200 of
\* hitTestInstance
VertexThreshold == 2
WallThreshold == 2
InstanceThreshold == 4
\* wall.thickness || 200 and ... || 900
DefaultThickness == 4
DefaultWidth == 18

\* Math.sqrt; exact on the squares it is given here
Sqrt(n) == CHOOSE r \in 0..n : r * r <= n /\ (r + 1) * (r + 1) > n

\* instanceUtils.calculateInstancePosition(instance, store).position
calculateInstancePosition(instance, s) ==
  IF instance.constraint # Null /\ "attachTo" \in DOMAIN instance.constraint
  THEN LET attachTo == instance.constraint.attachTo
       IN  IF attachTo.kind # "wall" \/ attachTo.id \notin DOMAIN s.walls THEN <<0, 0>>
           ELSE LET wall == s.walls[attachTo.id]
                IN  IF wall.vStart \notin DOMAIN s.vertices
                       \/ wall.vEnd \notin DOMAIN s.vertices
                    THEN <<0, 0>>
                    ELSE LET vStart == s.vertices[wall.vStart]
                             vEnd == s.vertices[wall.vEnd]
                             wallLength == Sqrt(WallLengthSq(wall, s.vertices))
                             offset == instance.constraint.offsetFromStart
                         IN  IF wallLength = 0 THEN <<vStart.x, vStart.y>>
                             ELSE <<vStart.x + (offset * (vEnd.x - vStart.x)) \div wallLength,
                                    vStart.y + (offset * (vEnd.y - vStart.y)) \div wallLength>>
  ELSE IF instance.transform # Null THEN instance.transform.position
  ELSE <<0, 0>>

\* instance.props?.width || symbol.geometry?.width || 900
HitWidth(instance, symbol) ==
  IF "width" \in DOMAIN instance.props /\ instance.props.width # 0
  THEN instance.props.width
  ELSE IF "geometry" \in DOMAIN symbol /\ symbol.geometry.width # 0
  THEN symbol.geometry.width
  ELSE DefaultWidth

\* distance <= width / 2 + threshold, both sides doubled and squared
hitTestInstance(point, instance, symbol, s) ==
  LET position == calculateInstancePosition(instance, s)
      dx == point[1] - position[1]
      dy == point[2] - position[2]
      reach == HitWidth(instance, symbol) + 2 * InstanceThreshold
  IN  4 * (dx * dx + dy * dy) <= reach * reach

\* distance <= threshold, both sides squared
hitTestVertex(point, vertex) ==
  LET dx == point[1] - vertex.x
      dy == point[2] - vertex.y
  IN  dx * dx + dy * dy <= VertexThreshold * VertexThreshold

\* geometry.pointToLineDistance, squared, as the fraction num / den: the distance
\* to the nearer end when the projection falls outside the segment (or the
\* segment has no length), else the distance to the line
pointToLineDistanceSq(point, lineStart, lineEnd) ==
  LET A == point[1] - lineStart[1]
      B == point[2] - lineStart[2]
      C == lineEnd[1] - lineStart[1]
      D == lineEnd[2] - lineStart[2]
      dot == A * C + B * D
      lenSq == C * C + D * D
      toEndX == point[1] - lineEnd[1]
      toEndY == point[2] - lineEnd[2]
  IN  IF lenSq = 0 \/ dot < 0 THEN [num |-> A * A + B * B, den |-> 1]
      ELSE IF dot > lenSq THEN [num |-> toEndX * toEndX + toEndY * toEndY, den |-> 1]
      ELSE [num |-> (A * D - B * C) * (A * D - B * C), den |-> lenSq]

\* distance <= (wall.thickness || 200) / 2 + threshold, both sides doubled and squared
hitTestWall(point, wall, verts) ==
  IF wall.vStart \notin DOMAIN verts \/ wall.vEnd \notin DOMAIN verts THEN FALSE
  ELSE LET vStart == verts[wall.vStart]
           vEnd == verts[wall.vEnd]
           d == pointToLineDistanceSq(point, <<vStart.x, vStart.y>>, <<vEnd.x, vEnd.y>>)
           thickness == IF "thickness" \in DOMAIN wall /\ wall.thickness # 0
                        THEN wall.thickness ELSE DefaultThickness
           reach == thickness + 2 * WallThreshold
       IN  4 * d.num <= reach * reach * d.den

\* geometry.isPointInPolygon: the ray to the right of point crosses an odd number
\* of edges; x < (xj - xi) * (y - yi) / (yj - yi) + xi with the division cleared
isPointInPolygon(point, polygon) ==
  LET n == Len(polygon)
      Crosses(i) ==
        LET j == IF i = 1 THEN n ELSE i - 1
            xi == polygon[i][1]
            yi == polygon[i][2]
            xj == polygon[j][1]
            yj == polygon[j][2]
        IN  /\ (yi > point[2]) # (yj > point[2])
            /\ IF yj - yi > 0
               THEN (point[1] - xi) * (yj - yi) < (xj - xi) * (point[2] - yi)
               ELSE (point[1] - xi) * (yj - yi) > (xj - xi) * (point[2] - yi)
  IN  Cardinality({i \in 1..n : Crosses(i)}) % 2 = 1

\* roomUtils.getRoomPolygon
getRoomPolygon(room, verts) ==
  IF Len(room.vertices) < 3 THEN <<>> ELSE RoomPolygon(room.vertices, verts)

hitTestRoom(point, room, verts) ==
  LET polygon == getRoomPolygon(room, verts)
  IN  IF Len(polygon) < 3 THEN FALSE ELSE isPointInPolygon(point, polygon)

\* Object.entries(table) of a table whose store lists its keys in order
Keys(order, table) ==
  LET Present(id) == id \in DOMAIN table
  IN  SelectSeq(order, Present)

\* findHitObject with vertices tested before instances
findHitObjectVerticesFirst(point, s) ==
  LET order == entryOrder
      InstanceHit(id) ==
        /\ s.instances[id].symbol \in DOMAIN s.symbols
        /\ hitTestInstance(point, s.instances[id], s.symbols[s.instances[id].symbol], s)
      VertexHit(id) == hitTestVertex(point, s.vertices[id])
      WallHit(id) == hitTestWall(point, s.walls[id], s.vertices)
      RoomHit(id) == hitTestRoom(point, s.rooms[id], s.vertices)
      instanceHits == SelectSeq(Keys(order, s.instances), InstanceHit)
      vertexHits == SelectSeq(Keys(order, s.vertices), VertexHit)
      wallHits == SelectSeq(Keys(order, s.walls), WallHit)
      roomHits == SelectSeq(Keys(order, s.rooms), RoomHit)
  IN  IF vertexHits # <<>> THEN [type |-> "vertex", id |-> vertexHits[1]]
      ELSE IF instanceHits # <<>> THEN [type |-> "instance", id |-> instanceHits[1]]
      ELSE IF wallHits # <<>> THEN [type |-> "wall", id |-> wallHits[1]]
      ELSE IF roomHits # <<>> THEN [type |-> "room", id |-> roomHits[1]]
      ELSE Null

\* findHitObject(worldPoint, store) on a store whose tables list their keys in
\* order: the first instance with a symbol that passes its test, else the first
\* vertex, else the first wall, else the first room, else null
findHitIn(point, s, order) ==
  LET InstanceHit(id) ==
        /\ s.instances[id].symbol \in DOMAIN s.symbols
        /\ hitTestInstance(point, s.instances[id], s.symbols[s.instances[id].symbol], s)
      VertexHit(id) == hitTestVertex(point, s.vertices[id])
      WallHit(id) == hitTestWall(point, s.walls[id], s.vertices)
      RoomHit(id) == hitTestRoom(point, s.rooms[id], s.vertices)
      instanceHits == SelectSeq(Keys(order, s.instances), InstanceHit)
      vertexHits == SelectSeq(Keys(order, s.vertices), VertexHit)
      wallHits == SelectSeq(Keys(order, s.walls), WallHit)
      roomHits == SelectSeq(Keys(order, s.rooms), RoomHit)
  IN  IF instanceHits # <<>> THEN [type |-> "instance", id |-> instanceHits[1]]
      ELSE IF vertexHits # <<>> THEN [type |-> "vertex", id |-> vertexHits[1]]
      ELSE IF wallHits # <<>> THEN [type |-> "wall", id |-> wallHits[1]]
      ELSE IF roomHits # <<>> THEN [type |-> "room", id |-> roomHits[1]]
      ELSE Null

\* findHitObject on the store as it is, its tables in the order they have now
findHitObject(point, s) == findHitIn(point, s, entryOrder)

HitSymbols ==
  [k \in {"door.single", "stairs"} |->
     IF k = "door.single"
     THEN [type |-> "anchored", anchor |-> "wall", geometry |-> [width |-> 18]]
     ELSE [type |-> "free", anchor |-> "none"]]

\* a room of 4000 by 3000 mm with a second room on half of it, a wall without a
\* thickness, a wall whose end is missing, a door in the middle of wall w1, stairs
\* near corner v3 and an instance whose symbol is not in the table
HitDocument ==
  [vertices |-> [k \in {"v1", "v2", "v3", "v4"} |->
                   CASE k = "v1" -> [x |-> 0, y |-> 0]
                     [] k = "v2" -> [x |-> 80, y |-> 0]
                     [] k = "v3" -> [x |-> 80, y |-> 60]
                     [] k = "v4" -> [x |-> 0, y |-> 60]],
   walls |-> [k \in {"w1", "w2", "w3"} |->
                CASE k = "w1" -> [vStart |-> "v1", vEnd |-> "v2", thickness |-> 4,
                                  isOuter |-> TRUE]
                  [] k = "w2" -> [vStart |-> "v2", vEnd |-> "v3", isOuter |-> TRUE]
                  [] k = "w3" -> [vStart |-> "v3", vEnd |-> "v9", thickness |-> 4,
                                  isOuter |-> TRUE]],
   rooms |-> [k \in {"r1", "r2"} |->
                IF k = "r1"
                THEN [name |-> "Room 1", vertices |-> <<"v1", "v2", "v3", "v4">>,
                      type |-> "living", area |-> 4800]
                ELSE [name |-> "Room 2", vertices |-> <<"v1", "v2", "v3">>,
                      type |-> "other", area |-> 2400]],
   symbols |-> HitSymbols,
   instances |-> [k \in {"d1", "g1", "s1"} |->
                    CASE k = "d1" ->
                           [symbol |-> "door.single",
                            constraint |-> [attachTo |-> [kind |-> "wall", id |-> "w1"],
                                            offsetFromStart |-> 40],
                            transform |-> Null,
                            props |-> [width |-> 18, label |-> "D1"]]
                      [] k = "g1" ->
                           [symbol |-> "ghost", constraint |-> Null,
                            transform |-> [position |-> <<40, 30>>, rotation |-> 0],
                            props |-> [label |-> "G1"]]
                      [] k = "s1" ->
                           [symbol |-> "stairs", constraint |-> Null,
                            transform |-> [position |-> <<72, 52>>, rotation |-> 0],
                            props |-> [label |-> "S1"]]]]

\* a wall without length, a room with a missing corner, a triangular room, an
\* instance on a wall that is not there and an instance on the wall without length
DegenerateDocument ==
  [vertices |-> [k \in {"v1", "v2", "v3", "v4"} |->
                   CASE k = "v1" -> [x |-> 0, y |-> 0]
                     [] k = "v2" -> [x |-> 40, y |-> 0]
                     [] k = "v3" -> [x |-> 40, y |-> 0]
                     [] k = "v4" -> [x |-> 0, y |-> 40]],
   walls |-> [k \in {"w1", "w2"} |->
                IF k = "w1"
                THEN [vStart |-> "v1", vEnd |-> "v2", thickness |-> 4, isOuter |-> TRUE]
                ELSE [vStart |-> "v2", vEnd |-> "v3", thickness |-> 4, isOuter |-> FALSE]],
   rooms |-> [k \in {"r1", "r2"} |->
                IF k = "r1"
                THEN [name |-> "Room 1", vertices |-> <<"v1", "v2", "v9">>,
                      type |-> "other", area |-> 0]
                ELSE [name |-> "Room 2", vertices |-> <<"v1", "v2", "v4">>,
                      type |-> "other", area |-> 800]],
   symbols |-> HitSymbols,
   instances |-> [k \in {"d1", "s1"} |->
                    IF k = "d1"
                    THEN [symbol |-> "door.single",
                          constraint |-> [attachTo |-> [kind |-> "wall", id |-> "w9"],
                                          offsetFromStart |-> 10],
                          transform |-> Null,
                          props |-> [label |-> "D1"]]
                    ELSE [symbol |-> "door.single",
                          constraint |-> [attachTo |-> [kind |-> "wall", id |-> "w2"],
                                          offsetFromStart |-> 10],
                          transform |-> Null,
                          props |-> [width |-> 18, label |-> "S1"]]]]

HitDocuments == {HitDocument, DegenerateDocument}

\* the world points of the mouse-downs that are followed
ClickPoints ==
  {-20, 0, 3, 20, 40, 53, 60, 72, 79, 80, 85}
    \X {-20, 0, 2, 5, 13, 30, 40, 52, 59, 60, 70}

\* KonvaCanvas.handleMouseDown with the select tool, outside placement mode:
\* selectItem(hit.id, hit.type) for what findHitObject returns, clearSelection()
\* when it returns null
MouseDownAt(point) ==
  /\ worldPoint' = point
  /\ hit' = findHitObject(point, State)
  /\ IF findHitObject(point, State) # Null
     THEN selectItem(findHitObject(point, State).id, findHitObject(point, State).type)
     ELSE clearSelection
  /\ UNCHANGED <<history, drag, loadedDocument, entryOrder, utility>>
  /\ Note("mouseDown")

MouseDown == \E point \in ClickPoints : MouseDownAt(point)

HitNext == MouseDown

HitInit == \E data \in HitDocuments : Started(data)

HitSpec == HitInit /\ [][HitNext]_vars

\* ------------------------------------- table order under Delete, undo and redo

\* the keys of the tables of s after a step from a store that listed its keys in
\* order: a key that stays keeps its place ({ ...table }), a key that left is
\* dropped, the key the step put in comes last ([id]: data after the spread); a
\* step of OrderSpec puts in one key at most
KeysAfter(order, s) ==
  LET all == (DOMAIN s.vertices) \cup (DOMAIN s.walls) \cup (DOMAIN s.rooms)
               \cup (DOMAIN s.instances)
      Stays(id) == id \in all
      added == all \ Range(order)
  IN  SelectSeq(order, Stays)
        \o (IF added = {} THEN <<>> ELSE <<CHOOSE id \in added : TRUE>>)

\* a point near corner v2 in reach of walls w1 and w2, a point inside rooms r1
\* and r2, a point outside everything
OrderClickPoints == {<<79, 2>>, <<60, 13>>, <<-20, -20>>}

OrderMouseDown == \E point \in OrderClickPoints : MouseDownAt(point)

\* handleKeyDown, Delete, with the order of the keys followed
OrderDelete ==
  /\ Len(selectedIds) > 0
  /\ selectedType # NoType
  /\ selectedIds[1] \in DOMAIN TableOfType(State, selectedType)
  /\ executeCommand([kind |-> "Delete", objectType |-> selectedType,
                     objectId |-> selectedIds[1],
                     objectData |-> TableOfType(State, selectedType)[selectedIds[1]]])
  /\ entryOrder' = KeysAfter(entryOrder, State')
  /\ UNCHANGED <<drag, worldPoint, hit, utility, loadedDocument>>

OrderUndo ==
  /\ undo
  /\ entryOrder' = KeysAfter(entryOrder, State')
  /\ UNCHANGED <<drag, worldPoint, hit, utility, loadedDocument>>

OrderRedo ==
  /\ redo
  /\ entryOrder' = KeysAfter(entryOrder, State')
  /\ UNCHANGED <<drag, worldPoint, hit, utility, loadedDocument>>

OrderNext ==
  \/ OrderMouseDown
  \/ OrderDelete
  \/ OrderUndo
  \/ OrderRedo

OrderInit == Started(HitDocument)

OrderSpec == OrderInit /\ [][OrderNext]_vars

\* ------------------------------------------------- calls of utility functions

\* a call of a utility function with its arguments, and what it returned; the
\* store is not touched
Call(arguments, value) ==
  /\ called' = arguments
  /\ returned' = value
  /\ UNCHANGED <<store, history, drag, worldPoint, hit, entryOrder, loadedDocument>>
  /\ Note(arguments.fn)

\* The functions are pure: a behaviour makes one call, a second one would reach
\* no state that the first does not
FirstCall == called = NoCall

\* for (const x of list) { ... push ... }: what the loop body F pushes for each
\* element, in order
Pushed(list, F(_)) ==
  LET pushed[i \in 0..Len(list)] == IF i = 0 THEN <<>> ELSE pushed[i - 1] \o F(list[i])
  IN  pushed[Len(list)]

\* ---------------------------------------------------------- validateFloorPlan

\* the errors array: walls, then rooms, then instances, each in table order
validationErrors(s) ==
  LET WallErrors(id) ==
        (IF s.walls[id].vStart \notin DOMAIN s.vertices
         THEN <<[wall |-> id, vertex |-> s.walls[id].vStart]>> ELSE <<>>)
        \o (IF s.walls[id].vEnd \notin DOMAIN s.vertices
            THEN <<[wall |-> id, vertex |-> s.walls[id].vEnd]>> ELSE <<>>)
      RoomErrors(id) ==
        LET MissingVertex(vId) ==
              IF vId \notin DOMAIN s.vertices
              THEN <<[room |-> id, vertex |-> vId]>> ELSE <<>>
        IN  IF Len(s.rooms[id].vertices) < 3
            THEN <<[room |-> id, vertices |-> Len(s.rooms[id].vertices)]>>
            ELSE Pushed(s.rooms[id].vertices, MissingVertex)
      InstanceErrors(id) ==
        IF /\ IsAnchored(s.instances[id])
           /\ s.instances[id].constraint.attachTo.id \notin DOMAIN s.walls
        THEN <<[instance |-> id, wall |-> s.instances[id].constraint.attachTo.id]>>
        ELSE <<>>
  IN  Pushed(Keys(EntryOrder, s.walls), WallErrors)
        \o Pushed(Keys(EntryOrder, s.rooms), RoomErrors)
        \o Pushed(Keys(EntryOrder, s.instances), InstanceErrors)

\* the warnings array: instances whose symbol is not in the table
validationWarnings(s) ==
  LET InstanceWarnings(id) ==
        IF s.instances[id].symbol \notin DOMAIN s.symbols
        THEN <<[instance |-> id, symbol |-> s.instances[id].symbol]>> ELSE <<>>
  IN  Pushed(Keys(EntryOrder, s.instances), InstanceWarnings)

\* a validation that counts a warning as an error
validateFloorPlanStrict(s) ==
  [valid |-> Len(validationErrors(s)) = 0 /\ Len(validationWarnings(s)) = 0,
   errors |-> validationErrors(s),
   warnings |-> validationWarnings(s)]

validateFloorPlan(s) ==
  [valid |-> Len(validationErrors(s)) = 0,
   errors |-> validationErrors(s),
   warnings |-> validationWarnings(s)]

\* the states that are validated: any of the vertices v1, v2, v3; no wall, wall
\* w1 between v1 and v2 or between v1 and a vertex that is never there; no room
\* or room r1 with three, two or no vertex ids; no instance, a door on w1 with a
\* known or an unknown symbol, a door on a wall that is never there, or stairs
\* placed freely with a known or an unknown symbol
ValidatedStates ==
  LET Wall(end) == [vStart |-> "v1", vEnd |-> end, thickness |-> 4, isOuter |-> TRUE]
      Room(ids) == [name |-> "Room 1", vertices |-> ids, type |-> "other", area |-> 0]
      Door(symbol, wallId) ==
        [symbol |-> symbol,
         constraint |-> [attachTo |-> [kind |-> "wall", id |-> wallId],
                         offsetFromStart |-> 20],
         transform |-> Null, props |-> [width |-> 18]]
      Stairs(symbol) ==
        [symbol |-> symbol, constraint |-> Null,
         transform |-> [position |-> <<10, 10>>, rotation |-> 0], props |-> [label |-> "S1"]]
      vertexTables == {[k \in ids |-> [x |-> 0, y |-> 0]] : ids \in SUBSET {"v1", "v2", "v3"}}
      wallTables == {EmptyTable} \cup {[k \in {"w1"} |-> Wall(end)] : end \in {"v2", "v9"}}
      roomTables ==
        {EmptyTable} \cup {[k \in {"r1"} |-> Room(ids)] :
                             ids \in {<<"v1", "v2", "v3">>, <<"v1", "v2">>, <<>>}}
      instanceTables ==
        {EmptyTable}
          \cup {[k \in {"d1"} |-> Door(symbol, wallId)] :
                  symbol \in {"door.single", "door.double"}, wallId \in {"w1", "w9"}}
          \cup {[k \in {"s1"} |-> Stairs(symbol)] : symbol \in {"stairs", "ramp"}}
  IN  [vertices : vertexTables, walls : wallTables, rooms : roomTables,
       symbols : {HitSymbols}, instances : instanceTables]

Validate ==
  /\ FirstCall
  /\ \E s \in ValidatedStates :
       Call([fn |-> "validateFloorPlan", state |-> s], validateFloorPlan(s))

\* ---------------------------------------------------------- clampOffsetToWall

\* the longest wall of the calls that are followed
MaxWallLength == 6

MathMax(a, b) == IF a >= b THEN a ELSE b

MathMin(a, b) == IF a <= b THEN a ELSE b

\* a clamp to the wall's ends that leaves the width out
clampOffsetToEnds(offset, wallLength, instanceWidth) ==
  MathMax(0, MathMin(wallLength, offset))

\* instanceWidth / 2 is exact: the widths that are drawn are even
clampOffsetToWall(offset, wallLength, instanceWidth) ==
  LET minOffset == instanceWidth \div 2
      maxOffset == wallLength - instanceWidth \div 2
  IN  MathMax(minOffset, MathMin(maxOffset, offset))

\* offsets from before the wall's start to beyond its end, walls of every length
\* up to MaxWallLength, even widths up to more than the longest wall
ClampOffset ==
  /\ FirstCall
  /\ \E offset \in -2..(MaxWallLength + 2), wallLength \in 0..MaxWallLength,
        half \in 0..(MaxWallLength \div 2 + 1) :
       Call([fn |-> "clampOffsetToWall", offset |-> offset, wallLength |-> wallLength,
             instanceWidth |-> 2 * half],
            clampOffsetToWall(offset, wallLength, 2 * half))

\* ------------------------------------------------------------- snap targets
\* Points are pairs <<x, y>> of whole numbers. distance() is a square root: the
\* model keeps its square, and decides a < b between distances on the squares.

\* SNAP_THRESHOLD of constants.js
SnapThreshold == 10

\* the longest list of snap targets of the calls that are followed
MaxTargets == 3

\* distance(p1, p2) squared
distanceSq(p1, p2) ==
  (p2[1] - p1[1]) * (p2[1] - p1[1]) + (p2[2] - p1[2]) * (p2[2] - p1[2])

\* distance(p1, p2) < limit; a distance is never below a limit that is not positive
Nearer(p1, p2, limit) == limit > 0 /\ distanceSq(p1, p2) < limit * limit

\* the loop of findSnapPoint after i targets: closestSnap, and minDistance squared
\* with infinite saying that it is still Infinity
SnapLoop(mousePos, snapTargets, threshold, closer(_, _)) ==
  LET loop[i \in 0..Len(snapTargets)] ==
        IF i = 0 THEN [closestSnap |-> Null, minDistanceSq |-> 0, infinite |-> TRUE]
        ELSE LET target == snapTargets[i]
                 distSq == distanceSq(mousePos, target.point)
             IN  IF /\ Nearer(mousePos, target.point, threshold)
                    /\ (loop[i - 1].infinite \/ closer(distSq, loop[i - 1].minDistanceSq))
                 THEN [closestSnap |-> target, minDistanceSq |-> distSq,
                       infinite |-> FALSE]
                 ELSE loop[i - 1]
  IN  loop[Len(snapTargets)].closestSnap

\* a search in which a target as near as the nearest so far replaces it
findSnapPointLastWins(mousePos, snapTargets, threshold) ==
  LET closer(a, b) == a <= b
  IN  SnapLoop(mousePos, snapTargets, threshold, closer)

findSnapPoint(mousePos, snapTargets, threshold) ==
  LET closer(a, b) == a < b
  IN  SnapLoop(mousePos, snapTargets, threshold, closer)

\* a suppression that compares a target with the last kept one only
deduplicateAdjacentTargets(snapTargets, tolerance) ==
  LET result[i \in 0..Len(snapTargets)] ==
        IF i = 0 THEN <<>>
        ELSE IF /\ result[i - 1] # <<>>
                /\ Nearer(snapTargets[i].point,
                          result[i - 1][Len(result[i - 1])].point, tolerance)
             THEN result[i - 1]
             ELSE Append(result[i - 1], snapTargets[i])
  IN  result[Len(snapTargets)]

\* result after the first i targets
deduplicateSnapTargets(snapTargets, tolerance) ==
  LET result[i \in 0..Len(snapTargets)] ==
        IF i = 0 THEN <<>>
        ELSE LET target == snapTargets[i]
                 isDuplicate == \E k \in DOMAIN result[i - 1] :
                                  Nearer(target.point, result[i - 1][k].point, tolerance)
             IN  IF isDuplicate THEN result[i - 1] ELSE Append(result[i - 1], target)
  IN  result[Len(snapTargets)]

\* the targets of the lists: from the origin, one at distance 0, two at 5, one at
\* 6, one at 10 and one at 20, and one target 1 away from a target at distance 5
SnapTargets ==
  {[point |-> p, type |-> "endpoint"] :
     p \in {<<0, 0>>, <<3, 4>>, <<4, 3>>, <<4, 4>>, <<6, 0>>, <<6, 8>>, <<20, 0>>}}

\* the lists of at most MaxTargets targets
TargetLists == UNION {[1..n -> SnapTargets] : n \in 0..MaxTargets}

FindSnap ==
  /\ FirstCall
  /\ \E snapTargets \in TargetLists, threshold \in {SnapThreshold \div 2, SnapThreshold} :
       Call([fn |-> "findSnapPoint", mousePos |-> <<0, 0>>, snapTargets |-> snapTargets,
             threshold |-> threshold],
            findSnapPoint(<<0, 0>>, snapTargets, threshold))

\* the default tolerance 0.1 is, on whole-number points, the tolerance 1: only a
\* target at the same point is nearer
Deduplicate ==
  /\ FirstCall
  /\ \E snapTargets \in TargetLists, tolerance \in {1, 2, SnapThreshold \div 2} :
       Call([fn |-> "deduplicateSnapTargets", snapTargets |-> snapTargets,
             tolerance |-> tolerance],
            deduplicateSnapTargets(snapTargets, tolerance))

\* ------------------------------------------------------ instances on a wall
\* Lengths are in units of 50 mm, as in the hit-testing part.

\* result.sort((a, b) => a.offsetFromStart - b.offsetFromStart): the sort is
\* stable, an instance goes behind those that are not farther from the start
SortedByOffset(list) ==
  LET sorted[i \in 0..Len(list)] ==
        IF i = 0 THEN <<>>
        ELSE LET before == Cardinality({k \in DOMAIN sorted[i - 1] :
                              sorted[i - 1][k].constraint.offsetFromStart
                                <= list[i].constraint.offsetFromStart})
             IN  SubSeq(sorted[i - 1], 1, before) \o <<list[i]>>
                   \o SubSeq(sorted[i - 1], before + 1, i - 1)
  IN  sorted[Len(list)]

\* { id, ...instance } for the instances whose constraint attaches them to the
\* wall, in table order, then sorted by offset
getInstancesOnWall(wallId, table) ==
  LET OnWall(id) ==
        IF IsAnchored(table[id]) /\ table[id].constraint.attachTo.id = wallId
        THEN <<[k \in (DOMAIN table[id]) \cup {"id"} |->
                  IF k = "id" THEN id ELSE table[id][k]]>>
        ELSE <<>>
  IN  SortedByOffset(Pushed(Keys(EntryOrder, table), OnWall))

\* inst.props?.width || 900
OverlapWidth(inst) ==
  IF "width" \in DOMAIN inst.props /\ inst.props.width # 0
  THEN inst.props.width ELSE DefaultWidth

\* a test that takes extents that touch for an overlap
checkInstancesTouch(list) ==
  \E i \in 1..(Len(list) - 1) :
    2 * list[i].constraint.offsetFromStart + OverlapWidth(list[i])
      >= 2 * list[i + 1].constraint.offsetFromStart - OverlapWidth(list[i + 1])

\* end1 > start2 for some neighbours i, i + 1; both sides are doubled, which keeps
\* width / 2 whole
checkInstancesOverlap(list) ==
  \E i \in 1..(Len(list) - 1) :
    2 * list[i].constraint.offsetFromStart + OverlapWidth(list[i])
      > 2 * list[i + 1].constraint.offsetFromStart - OverlapWidth(list[i + 1])

\* the instance tables of the calls: d1 absent or on wall w1, g1 absent or on w1
\* or w2, s1 absent, placed freely or on w1; every instance on a wall at one of
\* four offsets, without a width or 100 or 1000 mm wide
OverlapTables ==
  LET OnWall(wallId, offset, props) ==
        [symbol |-> "door.single",
         constraint |-> [attachTo |-> [kind |-> "wall", id |-> wallId],
                         offsetFromStart |-> offset],
         transform |-> Null, props |-> props]
      Free == [symbol |-> "stairs", constraint |-> Null,
               transform |-> [position |-> <<10, 10>>, rotation |-> 0],
               props |-> [label |-> "S1"]]
      Anchored(wallIds) ==
        {OnWall(wallId, offset, props) :
           wallId \in wallIds, offset \in {0, 10, 18, 19},
           props \in {[label |-> "D"], [width |-> 2], [width |-> 20]}}
      Table(d1, g1, s1) ==
        LET choice == [k \in {"d1", "g1", "s1"} |->
                         IF k = "d1" THEN d1 ELSE IF k = "g1" THEN g1 ELSE s1]
        IN  [id \in {k \in {"d1", "g1", "s1"} : choice[k] # <<>>} |-> choice[id][1]]
      Some(set) == {<<inst>> : inst \in set}
  IN  {Table(d1, g1, s1) :
         d1 \in {<<>>} \cup Some(Anchored({"w1"})),
         g1 \in {<<>>} \cup Some(Anchored({"w1", "w2"})),
         s1 \in {<<>>, <<Free>>} \cup Some(Anchored({"w1"}))}

CheckOverlap ==
  /\ FirstCall
  /\ \E wallId \in {"w1", "w2"}, table \in OverlapTables :
       Call([fn |-> "checkInstancesOverlap", wallId |-> wallId, instances |-> table],
            checkInstancesOverlap(getInstancesOnWall(wallId, table)))

\* --------------------------------------------------------------------- areas

\* the most points of a polygon, and vertex ids of a room, of the calls
MaxPolygon == 4

\* the corners of a rectangle of 6000 by 4000 mm and a point inside it; every
\* coordinate is even, which keeps area / 2 whole
AreaVertices ==
  [k \in {"v1", "v2", "v3", "v4", "v5"} |->
     CASE k = "v1" -> [x |-> 0, y |-> 0]
       [] k = "v2" -> [x |-> 6000, y |-> 0]
       [] k = "v3" -> [x |-> 6000, y |-> 4000]
       [] k = "v4" -> [x |-> 0, y |-> 4000]
       [] k = "v5" -> [x |-> 2000, y |-> 2000]]

\* the polygons of at most MaxPolygon of these points, in any order
CalculateArea ==
  /\ FirstCall
  /\ \E n \in 0..MaxPolygon :
       \E ids \in [1..n -> DOMAIN AreaVertices] :
         LET polygon == [i \in 1..n |-> <<AreaVertices[ids[i]].x, AreaVertices[ids[i]].y>>]
         IN  Call([fn |-> "calculateArea", polygon |-> polygon], calculateArea(polygon))

\* the rooms of at most MaxPolygon vertex ids, one of which, v9, is not in the
\* table
CalculateRoomArea ==
  /\ FirstCall
  /\ \E n \in 0..MaxPolygon :
       \E ids \in [1..n -> {"v1", "v2", "v3", "v4", "v9"}] :
         LET room == [name |-> "Room", vertices |-> ids, type |-> "other", area |-> 0]
         IN  Call([fn |-> "calculateRoomArea", room |-> room, vertices |-> AreaVertices],
                  calculateRoomArea(room, AreaVertices))

\* ------------------------------------------------ calculateInstancePosition
\* Lengths are in units of 50 mm, as in the hit-testing part; an angle in radians
\* is kept as its number of eighths of a turn (pi / 4).

\* Math.atan2(p2[1] - p1[1], p2[0] - p1[0]), on the directions along the axes and
\* the diagonals; atan2(0, 0) is 0
angleBetweenPoints(p1, p2) ==
  LET dx == p2[1] - p1[1]
      dy == p2[2] - p1[2]
  IN  CASE dy = 0 /\ dx >= 0 -> 0
        [] dy = 0 /\ dx < 0 -> 4
        [] dx = 0 /\ dy > 0 -> 2
        [] dx = 0 /\ dy < 0 -> -2
        [] dy > 0 /\ dx = dy -> 1
        [] dy > 0 /\ dx = -dy -> 3
        [] dy < 0 /\ dx = -dy -> -1
        [] dy < 0 /\ dx = dy -> -3

\* a rotation across the wall instead of along it
rotationAcrossWall(instance, s) ==
  IF /\ instance.constraint # Null
     /\ instance.constraint.attachTo.id \in DOMAIN s.walls
     /\ s.walls[instance.constraint.attachTo.id].vEnd \in DOMAIN s.vertices
  THEN LET wall == s.walls[instance.constraint.attachTo.id]
           vStart == s.vertices[wall.vStart]
           vEnd == s.vertices[wall.vEnd]
       IN  angleBetweenPoints(<<vStart.x, vStart.y>>, <<vEnd.x, vEnd.y>>) + 2
  ELSE 0

\* calculateInstancePosition(instance, store).rotation: 0 on every fallback, the
\* wall's angle for an instance on a wall, (rotation * Math.PI) / 180 for a free
\* one, whose degrees are multiples of 45
calculateInstanceRotation(instance, s) ==
  IF instance.constraint # Null /\ "attachTo" \in DOMAIN instance.constraint
  THEN LET attachTo == instance.constraint.attachTo
       IN  IF attachTo.kind # "wall" \/ attachTo.id \notin DOMAIN s.walls THEN 0
           ELSE LET wall == s.walls[attachTo.id]
                IN  IF wall.vStart \notin DOMAIN s.vertices
                       \/ wall.vEnd \notin DOMAIN s.vertices
                    THEN 0
                    ELSE LET vStart == s.vertices[wall.vStart]
                             vEnd == s.vertices[wall.vEnd]
                         IN  IF WallLengthSq(wall, s.vertices) = 0 THEN 0
                             ELSE angleBetweenPoints(<<vStart.x, vStart.y>>,
                                                     <<vEnd.x, vEnd.y>>)
  ELSE IF instance.transform # Null THEN instance.transform.rotation \div 45
  ELSE 0

\* the stores of the calls: wall w1 from one of two start vertices, of length 0
\* or along an axis, or with its end vertex missing
PoseStores ==
  LET Store(start, d, end) ==
        [vertices |-> [k \in {"v1", "v2"} |->
                         IF k = "v1" THEN [x |-> start[1], y |-> start[2]]
                         ELSE [x |-> start[1] + d[1], y |-> start[2] + d[2]]],
         walls |-> [k \in {"w1"} |-> [vStart |-> "v1", vEnd |-> end, thickness |-> 4,
                                      isOuter |-> TRUE]],
         rooms |-> EmptyTable, symbols |-> HitSymbols, instances |-> EmptyTable]
  IN  {Store(start, d, end) :
         start \in {<<0, 0>>, <<40, 20>>},
         d \in {<<0, 0>>, <<120, 0>>, <<-120, 0>>, <<0, 80>>, <<0, -80>>},
         end \in {"v2", "v9"}}

\* the instances of the calls: on wall w1 or on a wall that is not there, at an
\* offset before, on or beyond the wall, or placed freely
PoseInstances ==
  {[symbol |-> "door.single",
    constraint |-> [attachTo |-> [kind |-> "wall", id |-> wallId],
                    offsetFromStart |-> offset],
    transform |-> Null, props |-> [width |-> 18]] :
     wallId \in {"w1", "w9"}, offset \in {-10, 0, 30, 80, 120, 140}}
  \cup {[symbol |-> "stairs", constraint |-> Null,
          transform |-> [position |-> <<2, 4>>, rotation |-> degrees],
          props |-> [label |-> "S1"]] : degrees \in {0, 90, 225}}

CalculatePose ==
  /\ FirstCall
  /\ \E instance \in PoseInstances, s \in PoseStores :
       Call([fn |-> "calculateInstancePosition", instance |-> instance, store |-> s],
            [position |-> calculateInstancePosition(instance, s),
             rotation |-> calculateInstanceRotation(instance, s)])

\* ------------------------------------------------------------------ snapToGrid

\* the widest grid spacing of the calls that are followed
MaxGridSize == 4

\* Math.round(n / d) for d > 0: the nearest whole number, a half going up
MathRound(n, d) == (2 * n + d) \div (2 * d)

\* a snap to the grid line below
snapToGridBelow(point, gridSize) ==
  <<(point[1] \div gridSize) * gridSize, (point[2] \div gridSize) * gridSize>>

snapToGrid(point, gridSize) ==
  <<MathRound(point[1], gridSize) * gridSize, MathRound(point[2], gridSize) * gridSize>>

\* points up to two widest spacings from the origin on either side
SnapToGrid ==
  /\ FirstCall
  /\ \E x, y \in (-2 * MaxGridSize)..(2 * MaxGridSize), gridSize \in 1..MaxGridSize :
       Call([fn |-> "snapToGrid", point |-> <<x, y>>, gridSize |-> gridSize],
            snapToGrid(<<x, y>>, gridSize))

\* ------------------------------------------ execute and undo of Move commands

\* the commands of the calls: a vertex of the store or one that is not there, to
\* one of two positions; the door on wall w1, the freely placed stairs or an
\* instance that is not there, to one of two offsets
MoveCalls ==
  {[kind |-> "MoveVertex", vertexId |-> v, oldPosition |-> old, newPosition |-> new] :
     v \in {"v1", "v3", "v9"},
     old \in {[x |-> 0, y |-> 0], [x |-> 80, y |-> 60]},
     new \in {[x |-> 20, y |-> 10], [x |-> 80, y |-> 60]}}
  \cup {[kind |-> "MoveInstance", instanceId |-> i, oldOffset |-> old, newOffset |-> new] :
          i \in {"d1", "s1", "d9"}, old \in {40, 60}, new \in {0, 40}}

\* command.execute(get, set) or command.undo(get, set) on a store that holds the
\* loaded document; the store it leaves is what the call returns
ApplyMove ==
  /\ FirstCall
  /\ \E c \in MoveCalls, method \in {"execute", "undo"} :
       Call([fn |-> method, command |-> c, state |-> Loaded(HitDocument)],
            IF method = "execute" THEN Execute(c, Loaded(HitDocument))
            ELSE UndoCmd(c, Loaded(HitDocument)))

UtilityNext ==
  \/ Validate
  \/ ClampOffset
  \/ FindSnap
  \/ Deduplicate
  \/ CheckOverlap
  \/ CalculateArea
  \/ CalculateRoomArea
  \/ CalculatePose
  \/ SnapToGrid
  \/ ApplyMove

UtilityInit == Started(EmptyDocument)

UtilitySpec == UtilityInit /\ [][UtilityNext]_vars

\* ------------------------------------------------ selection of the store

\* the longest selection the model follows
MaxSelected == 2

\* an add to the selection that keeps the ids of the other type
selectItemMixing(id, type, addToSelection) ==
  /\ selectedIds' = IF addToSelection THEN Append(selectedIds, id) ELSE <<id>>
  /\ selectedType' = type
  /\ UNCHANGED <<vertices, walls, rooms, symbols, instances>>

\* selectItem(id, type, addToSelection): the id joins the selection when it is added
\* to one of the same type or to none, and replaces it otherwise
selectItemAdding(id, type, addToSelection) ==
  /\ IF addToSelection
     THEN IF selectedType = type \/ selectedType = NoType
          THEN selectedIds' = Append(selectedIds, id)
          ELSE selectedIds' = <<id>>
     ELSE selectedIds' = <<id>>
  /\ selectedType' = type
  /\ UNCHANGED <<vertices, walls, rooms, symbols, instances>>

\* toggleSelection(id, type): a selected id of the selected type leaves the selection,
\* and the type becomes null with the last one; any other id is added
toggleSelection(id, type) ==
  IF selectedType = type /\ id \in Range(selectedIds)
  THEN LET newSelectedIds == SelectSeq(selectedIds, LAMBDA selectedId : selectedId # id)
       IN  /\ selectedIds' = newSelectedIds
           /\ selectedType' = IF Len(newSelectedIds) > 0 THEN type ELSE NoType
           /\ UNCHANGED <<vertices, walls, rooms, symbols, instances>>
  ELSE selectItemAdding(id, type, TRUE)

\* the history variables after a selection call: lastCmd keeps its arguments
Selected(op, id, type, addToSelection) ==
  /\ lastOp' = op
  /\ lastCmd' = [kind |-> "Select", id |-> id, type |-> type,
                 addToSelection |-> addToSelection]
  /\ pre' = Snapshot
  /\ Len(selectedIds') <= MaxSelected
  /\ UNCHANGED <<nCommands, history, drag, pointer, loadedDocument>>

\* the objects a click can name: an id of a table with the type of that table
SelectItem ==
  \E type \in {"vertex", "wall", "room", "instance"}, addToSelection \in BOOLEAN :
    \E id \in DOMAIN TableOfType(State, type) :
      /\ selectItemAdding(id, type, addToSelection)
      /\ Selected("selectItem", id, type, addToSelection)

ToggleSelection ==
  \E type \in {"vertex", "wall", "room", "instance"} :
    \E id \in DOMAIN TableOfType(State, type) :
      /\ toggleSelection(id, type)
      /\ Selected("toggleSelection", id, type, TRUE)

ClearSelection ==
  /\ clearSelection
  /\ lastOp' = "clearSelection"
  /\ lastCmd' = NoCmd
  /\ pre' = Snapshot
  /\ UNCHANGED <<nCommands, history, drag, pointer, loadedDocument>>

\* executeCommand with the command that sets the selection and with one that leaves
\* it alone, undo, redo, loadJSON and the three selection calls
SelectionNext ==
  \/ ExecDelete
  \/ ExecMoveVertex
  \/ (NoUi /\ undo)
  \/ (NoUi /\ redo)
  \/ Load
  \/ SelectItem
  \/ ToggleSelection
  \/ ClearSelection

SelectionSpec == Init /\ [][SelectionNext]_vars

\* ------------------------------------------------------------------ claims

\* the vertices the last operation removed from the vertices table
RemovedVertices == (DOMAIN pre.tables.vertices) \ (DOMAIN vertices)

\* no wall and no room of the current tables references vId
Unreferenced(vId) == ~UsedByWall(walls, vId) /\ ~UsedByRoom(rooms, vId)

\* C1: executeCommand(C) immediately followed by undo() leaves the five tables equal
\* to their values before the executeCommand.
C1_UndoAfterExecuteRestores ==
  [][(lastOp = "execute" /\ lastOp' = "undo") => Tables(State)' = pre.tables]_vars

\* C2: with the cursor on a command, undo() followed by redo() restores the five
\* tables and the cursor to their values before the undo.
C2_RedoAfterUndoRestores ==
  [][(lastOp = "undo" /\ pre.historyIndex >= 0 /\ lastOp' = "redo")
       => (Tables(State)' = pre.tables /\ historyIndex' = pre.historyIndex)]_vars

\* C3: every wall's vStart and vEnd and every id in every room's vertex list is a
\* key of the vertices table.
C3_VertexReferencesExist ==
  /\ \A w \in DOMAIN walls : walls[w].vStart \in DOMAIN vertices /\ walls[w].vEnd \in DOMAIN vertices
  /\ \A r \in DOMAIN rooms : Range(rooms[r].vertices) \subseteq DOMAIN vertices

\* C4: a vertex is removed from the vertices table only when no wall and no room
\* references it; a DeleteCommand of type 'vertex' on a referenced vertex does not
\* remove it.
C4_NoReferencedVertexRemoved ==
  /\ \A v \in RemovedVertices : Unreferenced(v)
  /\ (lastOp = "execute" /\ lastCmd.kind = "Delete" /\ lastCmd.objectType = "vertex"
        /\ ~Unreferenced(lastCmd.objectId))
       => lastCmd.objectId \in DOMAIN vertices

\* the vertex ids an Add command names
CommandVertices(c) ==
  CASE c.kind = "AddWall" -> {c.v1Id, c.v2Id}
    [] c.kind = "AddRoom" -> Range(c.vertexIds)
    [] OTHER -> {}

\* C5: undoing an AddWallCommand or AddRoomCommand removes a vertex of the added
\* entity only if no other existing wall and no other existing room references it
\* at undo time.
C5_UndoAddKeepsSharedVertices ==
  (lastOp = "undo" /\ lastCmd.kind \in {"AddWall", "AddRoom"})
    => \A v \in CommandVertices(lastCmd) \cap RemovedVertices : Unreferenced(v)

\* C6: executing a delete of wall w removes from the vertices table exactly those
\* endpoints of w that no other wall and no room references.
C6_DeleteWallRemovesOwnVertices ==
  (lastOp = "execute" /\ lastCmd.kind = "Delete" /\ lastCmd.objectType = "wall")
    => RemovedVertices =
         {v \in {lastCmd.objectData.vStart, lastCmd.objectData.vEnd} \cap DOMAIN pre.tables.vertices :
            Unreferenced(v)}

\* C7: every instance whose constraint attaches it to a wall references a wall id
\* present in the walls table.
C7_AttachedWallExists ==
  \A i \in DOMAIN instances :
    IsAnchored(instances[i]) => instances[i].constraint.attachTo.id \in DOMAIN walls

\* the wall an anchored instance is on has both its end vertices
OnMeasurableWall(inst) ==
  /\ IsAnchored(inst)
  /\ inst.constraint.attachTo.id \in DOMAIN walls
  /\ walls[inst.constraint.attachTo.id].vStart \in DOMAIN vertices
  /\ walls[inst.constraint.attachTo.id].vEnd \in DOMAIN vertices

\* C8: after every committed command every wall-anchored instance satisfies
\* 0 <= offsetFromStart <= length of its wall at the current vertex positions.
C8_OffsetWithinWall ==
  \A i \in DOMAIN instances :
    OnMeasurableWall(instances[i]) =>
      LET o == instances[i].constraint.offsetFromStart
      IN  o >= 0 /\ o * o <= WallLengthSq(walls[instances[i].constraint.attachTo.id], vertices)

\* C9: after every committed command the stored area of every room equals the
\* shoelace area of its vertices' current positions.
C9_AreaIsCurrent ==
  \A r \in DOMAIN rooms : rooms[r].area = calculateRoomArea(rooms[r], vertices)

\* C10: after executeCommand(C) with history H and cursor i, commandHistory is
\* H[0..i] followed by C, historyIndex is the last index, and canRedo() is false.
C10_ExecuteTruncatesAndAppends ==
  [][lastOp' = "execute" =>
       /\ commandHistory' = SubSeq(commandHistory, 1, historyIndex + 1) \o <<lastCmd'>>
       /\ historyIndex' = Len(commandHistory') - 1
       /\ ~canRedo']_vars

\* C10 witness: a command was executed after an undo, so an entry was discarded
C10_Witness ==
  /\ lastOp = "execute"
  /\ nCommands = 2
  /\ Len(commandHistory) = 1
  /\ commandHistory[1] = lastCmd

\* C11: undo() with historyIndex = -1 changes nothing: the five tables,
\* commandHistory and historyIndex keep their values.
C11_UndoAtStartChangesNothing ==
  [][(lastOp' = "undo" /\ historyIndex < 0)
       => UNCHANGED <<vertices, walls, rooms, symbols, instances, commandHistory,
                      historyIndex>>]_vars

\* C11 witness: undo() ran with the cursor before the first entry of a history
\* that is not empty
C11_Witness ==
  /\ lastOp = "undo"
  /\ pre.historyIndex = -1
  /\ Len(commandHistory) > 0

\* C12: redo() with historyIndex on the last entry of commandHistory (or with an
\* empty history) changes nothing: the five tables, commandHistory and
\* historyIndex keep their values.
C12_RedoAtEndChangesNothing ==
  [][(lastOp' = "redo" /\ historyIndex >= Len(commandHistory) - 1)
       => UNCHANGED <<vertices, walls, rooms, symbols, instances, commandHistory,
                      historyIndex>>]_vars

\* C12 witness: redo() ran with the cursor on the last entry of a history that is
\* not empty
C12_Witness ==
  /\ lastOp = "redo"
  /\ lastCmd = NoCmd
  /\ Len(commandHistory) > 0
  /\ pre.historyIndex = Len(commandHistory) - 1

\* the value a drag moves: the position of the vertex, the offsetFromStart of the
\* instance
DragValue(d) ==
  IF d.kind = "vertex" THEN Position(vertices[d.id])
  ELSE instances[d.id].constraint.offsetFromStart

\* that value when the drag started, as the handle's ref keeps it
DragStartValue(d) ==
  IF d.kind = "vertex" THEN dragStartPositionRef ELSE dragStartRef.offset

\* C13: a vertex or instance drag that ends at a value different from its drag-start
\* value adds exactly one entry to commandHistory however many move steps it had
\* (for an instance drag the entry its import will add is counted), and undoing
\* that entry gives back the five tables of the drag start; a drag that ends at its
\* drag-start value adds no entry.
C13_DragAddsOneEntry ==
  [][(dragging # NoDrag /\ dragging' = NoDrag /\ lastOp' \in {"dragEnd", "execute"}) =>
       LET handed == IF lastOp' = "execute" THEN <<lastCmd'>>
                     ELSE SubSeq(pendingImports', Len(pendingImports) + 1,
                                 Len(pendingImports'))
       IN  IF DragValue(dragging) # DragStartValue(dragging)
           THEN /\ Len(handed) = 1
                /\ Tables(UndoCmd(handed[1], State')) = dragPre.tables
                /\ lastOp' = "execute" => Len(commandHistory') = historyIndex + 2
           ELSE /\ handed = <<>>
                /\ commandHistory' = commandHistory]_vars

\* C14: Escape pressed while a vertex or instance drag preview is in progress
\* restores the five tables to the snapshot taken at drag start and adds no history
\* entry.
C14_EscapeRestoresSnapshot ==
  [][(dragging # NoDrag /\ lastOp' = "escape") =>
       /\ Tables(State)' = dragPre.tables
       /\ commandHistory' = dragPre.commandHistory]_vars

\* C15: the MoveInstanceCommand of an instance drag enters history within the
\* drag-end event: while its import is pending no undo, redo, other executeCommand
\* or drag move is processed.
C15_NothingRunsBeforePendingCommand ==
  [][(pendingImports # <<>> /\ lastOp' \in {"undo", "redo", "execute", "dragMove"}) =>
       /\ lastOp' = "execute"
       /\ lastCmd' = Head(pendingImports)
       /\ pendingImports' = Tail(pendingImports)]_vars

RECURSIVE Replay(_, _, _)
\* the state after executing the first n commands of hist from state s
Replay(hist, n, s) ==
  IF n = 0 THEN s ELSE Execute(hist[n], Replay(hist, n - 1, s))

\* the last loaded document as a store state with nothing selected
LoadedState ==
  [vertices |-> loadedDocument.vertices, walls |-> loadedDocument.walls,
   rooms |-> loadedDocument.rooms, symbols |-> loadedDocument.symbols,
   instances |-> loadedDocument.instances,
   selectedIds |-> <<>>, selectedType |-> NoType]

\* C16: whenever no drag is in progress, the five tables are what executing
\* commandHistory[0..historyIndex] in order on the last loaded document gives.
C16_TablesAreReplayOfHistory ==
  dragging = NoDrag =>
    Tables(State) = Tables(Replay(commandHistory, historyIndex + 1, LoadedState))

\* the table and the id a command addresses
TargetTable(c, s) ==
  CASE c.kind = "MoveVertex" -> s.vertices
    [] c.kind = "MoveInstance" -> s.instances
    [] c.kind = "AddWall" -> s.walls
    [] c.kind = "AddRoom" -> s.rooms
    [] c.kind = "AddInstance" -> s.instances
    [] c.kind = "Delete" -> TableOfType(s, c.objectType)

TargetId(c) ==
  CASE c.kind = "MoveVertex" -> c.vertexId
    [] c.kind = "MoveInstance" -> c.instanceId
    [] c.kind = "AddWall" -> c.wallId
    [] c.kind = "AddRoom" -> c.roomId
    [] c.kind = "AddInstance" -> c.instanceId
    [] c.kind = "Delete" -> c.objectId

\* the operation works on an entity that has to be in its table: every operation
\* of a move, execute and redo of a delete, undo of an add (execute of an add and
\* undo of a delete are the operations that put the entity there)
WorksOnTarget(op, c) ==
  \/ c.kind \in {"MoveVertex", "MoveInstance"}
  \/ c.kind = "Delete" /\ op \in {"execute", "redo"}
  \/ c.kind \in {"AddWall", "AddRoom", "AddInstance"} /\ op = "undo"

\* C17: executing, undoing or redoing a command whose target id is absent from its
\* table leaves the five tables unchanged, and the cursor moves by one (forward on
\* execute and redo, back on undo).
C17_AbsentTargetIsNoOp ==
  [][(/\ lastOp' \in {"execute", "undo", "redo"}
      /\ lastCmd' # NoCmd
      /\ WorksOnTarget(lastOp', lastCmd')
      /\ TargetId(lastCmd') \notin DOMAIN TargetTable(lastCmd', State)) =>
       /\ UNCHANGED <<vertices, walls, rooms, symbols, instances>>
       /\ historyIndex' = historyIndex + (IF lastOp' = "undo" THEN -1 ELSE 1)]_vars

\* the table a document holds under a name, empty when it has none
DocumentTable(data, name) ==
  IF name \in DOMAIN data /\ data[name] # Null THEN data[name] ELSE EmptyTable

\* C18: after loadJSON(data) from any prior state each of the five tables is the
\* table of data (empty when data has none), commandHistory is empty and
\* historyIndex is -1; undo() and redo() right after a load change nothing.
C18_LoadReplacesStoreAndHistory ==
  [][/\ (lastOp' = "load" /\ lastCmd'.kind = "Load") =>
          /\ \A name \in {"vertices", "walls", "rooms", "symbols", "instances"} :
               State'[name] = DocumentTable(lastCmd'.data, name)
          /\ commandHistory' = <<>>
          /\ historyIndex' = -1
     /\ (lastOp = "load" /\ lastOp' \in {"undo", "redo"}) =>
          UNCHANGED <<vertices, walls, rooms, symbols, instances, commandHistory,
                      historyIndex>>]_vars

\* C18 witness: a document without a walls table was loaded over a store that had
\* walls and an applied command
C18_Witness ==
  /\ lastOp = "load"
  /\ lastCmd.kind = "Load"
  /\ "walls" \notin DOMAIN lastCmd.data
  /\ pre.tables.walls # EmptyTable
  /\ pre.historyIndex >= 0
  /\ walls = EmptyTable

\* the ids command c gives to new entities are in no table of s; the first end of
\* a later segment of a wall chain is the vertex the segment before it added
FreshIds(c, s, chained) ==
  CASE c.kind = "AddWall" ->
         /\ c.wallId \notin DOMAIN s.walls
         /\ c.v2Id \notin DOMAIN s.vertices
         /\ chained \/ c.v1Id \notin DOMAIN s.vertices
    [] c.kind = "AddRoom" ->
         /\ c.roomId \notin DOMAIN s.rooms
         /\ \A v \in Range(c.vertexIds) : v \notin DOMAIN s.vertices
    [] c.kind = "AddInstance" -> c.instanceId \notin DOMAIN s.instances
    [] OTHER -> TRUE

\* C19: every id the draw-room, draw-wall and place-instance tools give to a new
\* vertex, wall, room or instance is absent from its table when the command
\* executes.
C19_AssignedIdsAreFresh ==
  [][lastOp' = "execute" =>
       LET batch == SubSeq(commandHistory', historyIndex + 2, Len(commandHistory'))
       IN  \A k \in 1..Len(batch) :
             FreshIds(batch[k], Replay(batch, k - 1, State), k > 1)]_vars

\* the objects of each type that pass their hit test at the last mouse-down
PassingInstances ==
  {id \in DOMAIN instances :
     /\ instances[id].symbol \in DOMAIN symbols
     /\ hitTestInstance(worldPoint, instances[id], symbols[instances[id].symbol], State)}

PassingVertices == {id \in DOMAIN vertices : hitTestVertex(worldPoint, vertices[id])}

PassingWalls == {id \in DOMAIN walls : hitTestWall(worldPoint, walls[id], vertices)}

PassingRooms == {id \in DOMAIN rooms : hitTestRoom(worldPoint, rooms[id], vertices)}

\* point lies on the same side of every edge of polygon, and on none: it is in the
\* interior of a convex polygon
StrictlyInside(point, polygon) ==
  LET n == Len(polygon)
      Side(i) ==
        LET j == (i % n) + 1
        IN  (polygon[j][1] - polygon[i][1]) * (point[2] - polygon[i][2])
              - (polygon[j][2] - polygon[i][2]) * (point[1] - polygon[i][1])
  IN  /\ n >= 3
      /\ \/ \A i \in 1..n : Side(i) > 0
         \/ \A i \in 1..n : Side(i) < 0

\* C20: findHitObject returns an instance whenever some instance with an existing
\* symbol passes its hit test; otherwise a vertex whenever some vertex passes;
\* otherwise a wall whenever some wall passes; otherwise a room whose polygon
\* contains the point; otherwise null.  A point in the interior of a room with no
\* instance, vertex or wall in range returns a room that has it in its interior.
C20_HitPriority ==
  hit # NoHit =>
    /\ IF PassingInstances # {}
       THEN hit # Null /\ hit.type = "instance" /\ hit.id \in PassingInstances
       ELSE IF PassingVertices # {}
       THEN hit # Null /\ hit.type = "vertex" /\ hit.id \in PassingVertices
       ELSE IF PassingWalls # {}
       THEN hit # Null /\ hit.type = "wall" /\ hit.id \in PassingWalls
       ELSE IF PassingRooms # {}
       THEN hit # Null /\ hit.type = "room" /\ hit.id \in PassingRooms
       ELSE hit = Null
    /\ (/\ PassingInstances = {} /\ PassingVertices = {} /\ PassingWalls = {}
        /\ \E r \in DOMAIN rooms :
             StrictlyInside(worldPoint, getRoomPolygon(rooms[r], vertices))) =>
         /\ hit # Null
         /\ hit.type = "room"
         /\ StrictlyInside(worldPoint, getRoomPolygon(rooms[hit.id], vertices))

\* C20 witness: the mouse-down returned an instance at a point where a vertex, a
\* wall and a room pass their tests too
C20_Witness ==
  /\ hit # NoHit
  /\ hit # Null
  /\ hit.type = "instance"
  /\ PassingVertices # {}
  /\ PassingWalls # {}
  /\ PassingRooms # {}

\* C21: findHitObject returns the same {type, id} on two stores that hold the same
\* entities under the same ids but were populated in a different order: on the
\* store as it is now, whenever it holds what the loaded document held, and on the
\* store as loadJSON populated it.
C21_HitIgnoresEntryOrder ==
  (lastOp = "mouseDown" /\ Tables(State) = loadedDocument) =>
    hit = findHitIn(worldPoint, State, EntryOrder)

\* C22: a pointer-move step of a vertex or instance drag changes only the dragged
\* vertex's x and y, or the dragged instance's offsetFromStart; commandHistory,
\* historyIndex and every other entity are unchanged by the step.
C22_DragMoveChangesOnlyDraggedValue ==
  [][lastOp' = "dragMove" =>
       /\ UNCHANGED <<commandHistory, historyIndex, walls, rooms, symbols>>
       /\ DOMAIN vertices' = DOMAIN vertices
       /\ DOMAIN instances' = DOMAIN instances
       /\ \A v \in DOMAIN vertices :
            IF dragging.kind = "vertex" /\ v = dragging.id
            THEN [vertices'[v] EXCEPT !.x = vertices[v].x, !.y = vertices[v].y]
                   = vertices[v]
            ELSE vertices'[v] = vertices[v]
       /\ \A i \in DOMAIN instances :
            IF dragging.kind = "instance" /\ i = dragging.id
            THEN /\ [instances'[i] EXCEPT !.constraint = instances[i].constraint]
                      = instances[i]
                 /\ [instances'[i].constraint EXCEPT
                       !.offsetFromStart = instances[i].constraint.offsetFromStart]
                      = instances[i].constraint
            ELSE instances'[i] = instances[i]]_vars

\* C22 witness: a pointer move of an instance drag has left the instance at an
\* offset other than the one the drag started from
C22_Witness ==
  /\ lastOp = "dragMove"
  /\ dragging.kind = "instance"
  /\ dragStartRef # Null
  /\ instances[dragging.id].constraint.offsetFromStart # dragStartRef.offset

\* C23: export returns all five tables exactly as stored, and loading the exported
\* document reproduces the same five tables.
C23_ExportRoundTrip ==
  [][lastOp' \in {"exportJSON", "exportToJSON"} =>
       /\ \A name \in {"vertices", "walls", "rooms", "symbols", "instances"} :
            /\ name \in DOMAIN lastCmd'.data
            /\ lastCmd'.data[name] = State[name]
       /\ Tables(State)' = Tables(State)]_vars

C25_ClampKeepsExtentOnWall ==
  called.fn = "clampOffsetToWall" =>
    /\ 2 * returned - called.instanceWidth >= 0
    /\ 2 * returned + called.instanceWidth <= 2 * called.wallLength

\* C25, amended: when the instance is not wider than the wall, the result keeps
\* the whole extent on the wall and is the offset itself whenever the offset
\* already does; when the instance is wider than the wall the result is width/2,
\* whose extent starts at the wall's start and ends beyond its end.
C25_ClampKeepsExtentOnWallWhenItFits ==
  called.fn = "clampOffsetToWall" =>
    IF called.instanceWidth <= called.wallLength
    THEN /\ 2 * returned - called.instanceWidth >= 0
         /\ 2 * returned + called.instanceWidth <= 2 * called.wallLength
         /\ (/\ 2 * called.offset - called.instanceWidth >= 0
             /\ 2 * called.offset + called.instanceWidth <= 2 * called.wallLength)
              => returned = called.offset
    ELSE /\ 2 * returned = called.instanceWidth
         /\ 2 * returned + called.instanceWidth > 2 * called.wallLength

C25_Witness ==
  /\ called.fn = "clampOffsetToWall"
  /\ called.instanceWidth > 0
  /\ called.instanceWidth < called.wallLength
  /\ called.offset > called.wallLength
  /\ 2 * returned + called.instanceWidth = 2 * called.wallLength

C27_FirstNearestWithinThreshold ==
  called.fn = "findSnapPoint" =>
    LET list == called.snapTargets
        Within(k) == Nearer(called.mousePos, list[k].point, called.threshold)
        DistSq(k) == distanceSq(called.mousePos, list[k].point)
    IN  IF \A k \in DOMAIN list : ~Within(k)
        THEN returned = Null
        ELSE \E k \in DOMAIN list :
               /\ returned = list[k]
               /\ Within(k)
               /\ \A j \in DOMAIN list : DistSq(k) <= DistSq(j)
               /\ \A j \in 1..(k - 1) : DistSq(k) < DistSq(j)

C27_Witness ==
  /\ called.fn = "findSnapPoint"
  /\ called.snapTargets = <<[point |-> <<6, 0>>, type |-> "endpoint"],
                            [point |-> <<4, 3>>, type |-> "endpoint"],
                            [point |-> <<3, 4>>, type |-> "endpoint"]>>
  /\ returned = [point |-> <<4, 3>>, type |-> "endpoint"]

\* C28: deduplicateSnapTargets returns a subsequence of its input that keeps the
\* first element, has no two targets nearer than the tolerance, and leaves a target
\* out only when a target kept before it is nearer than the tolerance; applied to
\* its own result it returns that result.
C28_DeduplicateKeepsFirstOfNearTargets ==
  called.fn = "deduplicateSnapTargets" =>
    LET list == called.snapTargets
        tolerance == called.tolerance
    IN  /\ \E kept \in SUBSET DOMAIN list :
              LET KeptAt(i) == CHOOSE k \in kept : Cardinality({j \in kept : j < k}) = i - 1
              IN  /\ Len(returned) = Cardinality(kept)
                  /\ \A i \in DOMAIN returned : returned[i] = list[KeptAt(i)]
                  /\ list # <<>> => 1 \in kept
                  /\ \A k \in (DOMAIN list) \ kept :
                       \E j \in kept : j < k /\ Nearer(list[k].point, list[j].point, tolerance)
        /\ \A i, j \in DOMAIN returned :
              i # j => ~Nearer(returned[i].point, returned[j].point, tolerance)
        /\ deduplicateSnapTargets(returned, tolerance) = returned

C28_Witness ==
  /\ called.fn = "deduplicateSnapTargets"
  /\ Len(called.snapTargets) = 3
  /\ Len(returned) = 2
  /\ returned[2] = called.snapTargets[3]

\* C29: checkInstancesOverlap of the list getInstancesOnWall gives for a wall is
\* true exactly when two instances on that wall have extents
\* [offset - width/2, offset + width/2] that overlap, width being props.width or
\* else 900; extents that only touch do not overlap.
C29_OverlapIffTwoExtentsOverlap ==
  called.fn = "checkInstancesOverlap" =>
    LET table == called.instances
        onWall == {id \in DOMAIN table :
                     /\ IsAnchored(table[id])
                     /\ table[id].constraint.attachTo.id = called.wallId}
        Low(id) == 2 * table[id].constraint.offsetFromStart - OverlapWidth(table[id])
        High(id) == 2 * table[id].constraint.offsetFromStart + OverlapWidth(table[id])
    IN  returned <=>
          \E a, b \in onWall : a # b /\ Low(a) < High(b) /\ Low(b) < High(a)

\* three instances on the wall, the first in the table farthest from the start,
\* two of them touching and none overlapping
C29_Witness ==
  /\ called.fn = "checkInstancesOverlap"
  /\ called.wallId = "w1"
  /\ DOMAIN called.instances = {"d1", "g1", "s1"}
  /\ \A id \in {"d1", "g1", "s1"} : IsAnchored(called.instances[id])
  /\ called.instances["d1"].constraint.offsetFromStart = 19
  /\ called.instances["g1"].constraint.offsetFromStart = 0
  /\ called.instances["s1"].constraint.offsetFromStart = 10
  /\ called.instances["g1"].constraint.attachTo.id = "w1"
  /\ returned = FALSE

\* C30: calculateArea is never negative, gives a polygon and the same polygon
\* reversed the same area, and gives 0 for fewer than three points; calculateRoomArea
\* gives 24,000,000 for the rectangle (0,0), (6000,0), (6000,4000), (0,4000).
C30_AreaIgnoresWinding ==
  /\ called.fn = "calculateArea" =>
       LET P == called.polygon
           reversed == [i \in 1..Len(P) |-> P[Len(P) + 1 - i]]
       IN  /\ returned >= 0
           /\ returned = calculateArea(reversed)
           /\ Len(P) < 3 => returned = 0
  /\ (called.fn = "calculateRoomArea"
        /\ called.room.vertices = <<"v1", "v2", "v3", "v4">>) => returned = 24000000

\* the rectangle, clockwise
C30_Witness ==
  /\ called.fn = "calculateArea"
  /\ called.polygon = <<<<0, 0>>, <<0, 4000>>, <<6000, 4000>>, <<6000, 0>>>>
  /\ returned = 24000000

C32_SnapToNearestGridPoint ==
  called.fn = "snapToGrid" =>
    /\ \A i \in 1..2 :
         /\ returned[i] % called.gridSize = 0
         /\ 2 * Abs(returned[i] - called.point[i]) <= called.gridSize
    /\ snapToGrid(returned, called.gridSize) = returned

\* a coordinate halfway between two grid lines, below zero, goes up
C32_Witness ==
  /\ called.fn = "snapToGrid"
  /\ called.point = <<-3, 7>>
  /\ called.gridSize = 2
  /\ returned = <<-2, 8>>

\* C33: the execute of a DeleteCommand, first or on redo, takes the entry with its
\* id out of the table of its type, leaves every other entry of the five tables as
\* it was, and clears the selection.
C33_DeleteRemovesOnlyItsEntry ==
  (lastOp \in {"execute", "redo"} /\ lastCmd.kind = "Delete") =>
    /\ TableOfType(State, lastCmd.objectType)
         = Remove(TableOfType(pre.tables, lastCmd.objectType), lastCmd.objectId)
    /\ \A type \in {"room", "wall", "instance", "vertex"} \ {lastCmd.objectType} :
         TableOfType(State, type) = TableOfType(pre.tables, type)
    /\ symbols = pre.tables.symbols
    /\ selectedIds = <<>>
    /\ selectedType = NoType

\* a room is deleted whose vertices, a wall and an instance stay
C33_Witness ==
  /\ lastOp = "execute"
  /\ lastCmd.kind = "Delete"
  /\ lastCmd.objectType = "room"
  /\ lastCmd.objectId \in DOMAIN pre.tables.rooms
  /\ lastCmd.objectId \notin DOMAIN rooms
  /\ Range(lastCmd.objectData.vertices) \subseteq DOMAIN vertices
  /\ walls # EmptyTable
  /\ instances # EmptyTable

\* C34: ending a room drawing with Enter or Space creates a room only when three
\* points or more were placed; the room's vertex list then holds one id for each
\* point, all different, and each is in the vertices table after the command;
\* with fewer than three points no room, no vertex and no history entry is made.
C34_RoomNeedsThreePoints ==
  [][/\ (lastOp' = "execute" /\ lastCmd'.kind = "AddRoom") =>
          LET ids == rooms'[lastCmd'.roomId].vertices
          IN  /\ Len(lastCmd'.vertexData) >= 3
              /\ Len(ids) = Len(lastCmd'.vertexData)
              /\ \A i, j \in DOMAIN ids : i # j => ids[i] # ids[j]
              /\ Range(ids) \subseteq DOMAIN vertices'
              /\ Len(commandHistory') = historyIndex + 2
     /\ lastOp' = "finishRoom" =>
          /\ Len(lastCmd'.points) < 3
          /\ UNCHANGED <<vertices, walls, rooms, symbols, instances,
                         commandHistory, historyIndex>>]_vars

\* a room was drawn on a store that had vertices already
C34_Witness ==
  /\ lastOp = "execute"
  /\ lastCmd.kind = "AddRoom"
  /\ pre.tables.vertices # EmptyTable
  /\ lastCmd.roomId \in DOMAIN rooms
  /\ Range(lastCmd.vertexIds) \subseteq DOMAIN vertices

\* C35: the cursor stays within -1 .. length(commandHistory) - 1; canUndo() is
\* true exactly when undo() moves the cursor, and canRedo() exactly when redo()
\* moves it.
C35_CursorInRangeAndButtonsMatch ==
  /\ historyIndex >= -1 /\ historyIndex <= Len(commandHistory) - 1
  /\ [][/\ historyIndex' >= -1 /\ historyIndex' <= Len(commandHistory') - 1
        /\ lastOp' = "undo" => (canUndo <=> historyIndex' # historyIndex)
        /\ lastOp' = "redo" => (canRedo <=> historyIndex' # historyIndex)]_vars

\* an undo from the end of a history of two, which leaves both buttons on
C35_Witness ==
  /\ lastOp = "undo"
  /\ Len(commandHistory) = 2
  /\ historyIndex = 0
  /\ canUndo
  /\ canRedo

RECURSIVE UndoneFrom(_, _)
\* the store after undo() was called idx + 1 times from store s with the cursor
\* at idx: each call undoes the command under the cursor and moves it back by one
UndoneFrom(s, idx) ==
  IF idx < 0 THEN s ELSE UndoneFrom(UndoCmd(commandHistory[idx + 1], s), idx - 1)

\* C36: from every state that executeCommand, undo and redo reach from a loaded
\* document, historyIndex + 1 calls of undo() bring the cursor to -1, and the five
\* tables are then those of the loaded document.
C36_UndoAllRestoresLoaded ==
  Tables(UndoneFrom(State, historyIndex)) = loadedDocument

\* tables after differ from tables before in nothing but the x and y of vertex id
OnlyPositionChanged(before, after, id) ==
  /\ \A name \in {"walls", "rooms", "symbols", "instances"} : after[name] = before[name]
  /\ DOMAIN after.vertices = DOMAIN before.vertices
  /\ \A v \in DOMAIN before.vertices :
       IF v = id
       THEN [after.vertices[v] EXCEPT !.x = before.vertices[v].x,
                                      !.y = before.vertices[v].y] = before.vertices[v]
       ELSE after.vertices[v] = before.vertices[v]

\* tables after differ from tables before in nothing but the offsetFromStart of
\* instance id; a constraint that is null has no offsetFromStart to change
OnlyOffsetChanged(before, after, id) ==
  /\ \A name \in {"vertices", "walls", "rooms", "symbols"} : after[name] = before[name]
  /\ DOMAIN after.instances = DOMAIN before.instances
  /\ \A i \in DOMAIN before.instances :
       LET old == before.instances[i]
           new == after.instances[i]
       IN  IF i = id /\ old.constraint # Null
           THEN /\ [new EXCEPT !.constraint = old.constraint] = old
                /\ DOMAIN new.constraint = DOMAIN old.constraint
                /\ [new.constraint EXCEPT !.offsetFromStart = old.constraint.offsetFromStart]
                     = old.constraint
           ELSE new = old

\* C37: execute and undo of a MoveVertexCommand change only the x and y of its
\* vertex, execute and undo of a MoveInstanceCommand change only the offsetFromStart
\* of its instance; every other entity, every other field of the target, a null
\* constraint included, and every other table stay as they were.
C37_MoveChangesOnlyItsValue ==
  /\ (lastOp \in {"execute", "undo", "redo"} /\ lastCmd.kind = "MoveVertex") =>
       OnlyPositionChanged(pre.tables, Tables(State), lastCmd.vertexId)
  /\ (lastOp \in {"execute", "undo", "redo"} /\ lastCmd.kind = "MoveInstance") =>
       OnlyOffsetChanged(pre.tables, Tables(State), lastCmd.instanceId)
  /\ (called.fn \in {"execute", "undo"} /\ called.command.kind = "MoveVertex") =>
       /\ OnlyPositionChanged(Tables(called.state), Tables(returned),
                              called.command.vertexId)
       /\ returned.selectedIds = called.state.selectedIds
       /\ returned.selectedType = called.state.selectedType
  /\ (called.fn \in {"execute", "undo"} /\ called.command.kind = "MoveInstance") =>
       /\ OnlyOffsetChanged(Tables(called.state), Tables(returned),
                            called.command.instanceId)
       /\ returned.selectedIds = called.state.selectedIds
       /\ returned.selectedType = called.state.selectedType

\* C38: in every state reached through selectItem, toggleSelection, clearSelection,
\* loadJSON, executeCommand, undo and redo the selection is empty exactly when
\* selectedType is null, and every selected id was selected with the type in
\* selectedType: after each step an id of the selection either was in it before with
\* the same selectedType, or is the id of this step's selectItem or toggleSelection
\* call with its type, or is the object a DeleteCommand's undo selects again with
\* its objectType
C38_SelectionHasOneType ==
  /\ (selectedIds = <<>>) <=> (selectedType = NoType)
  /\ [][/\ (selectedIds' = <<>>) <=> (selectedType' = NoType)
        /\ \A k \in DOMAIN selectedIds' :
          \/ /\ selectedIds'[k] \in Range(selectedIds)
             /\ selectedType' = selectedType
          \/ /\ lastCmd'.kind = "Select"
             /\ selectedIds'[k] = lastCmd'.id
             /\ selectedType' = lastCmd'.type
          \/ /\ lastCmd'.kind = "Delete"
             /\ lastOp' = "undo"
             /\ selectedIds'[k] = lastCmd'.objectId
             /\ selectedType' = lastCmd'.objectType]_vars

\* a second vertex was added to a selection of one vertex
C38_Witness ==
  /\ lastOp = "selectItem"
  /\ lastCmd.kind = "Select"
  /\ lastCmd.addToSelection
  /\ selectedType = "vertex"
  /\ Len(selectedIds) = 2
  /\ selectedIds[1] # selectedIds[2]
  /\ selectedIds[2] = lastCmd.id

====
